---- MODULE Spec2Model ----
(***************************************************************************)
(* A model of the performance monitor (performance2025): the monitor       *)
(* window's start/stop commands, the monitor_loop threads, the process     *)
(* list refresher and the SQLite metrics store.                            *)
(*                                                                         *)
(* Time is a discrete clock `now` counted in ticks, TicksPerSecond ticks   *)
(* to the second.  A name is a sequence of character codes, so that        *)
(* str.lower() and string comparison are computed, not assumed.            *)
(***************************************************************************)
EXTENDS Integers, Sequences, FiniteSets, TLC

(* ------------------------------ bounds -------------------------------- *)
MaxTime == 5
MaxThreads == 2
MaxOversleep == 0
TicksPerSecond == 1
MaxWrites == 3
MaxStoreTime == 2
MaxQueryWrites == 2

(* ------------------------- program constants -------------------------- *)
JoinTimeout == 2

None == "None"
\* an absent value; a present one is <<value>>
Nil == <<>>
Intervals == {2, 3}
Dirs == {"", "out"}
Platforms == {"linux", "darwin"}
Tids == 1..MaxThreads

(* ------------------------------ helpers ------------------------------- *)
lower_char(c) == IF c >= 65 /\ c <= 90 THEN c + 32 ELSE c

lower(s) == [k \in 1..Len(s) |-> lower_char(s[k])]

Min(S) == CHOOSE x \in S : \A y \in S : x <= y

RECURSIVE SortedSeq(_)
SortedSeq(S) == IF S = {} THEN <<>>
                ELSE LET m == Min(S) IN <<m>> \o SortedSeq(S \ {m})

Range(s) == {s[k] : k \in 1..Len(s)}

RemoveAt(s, k) == [j \in 1..(Len(s) - 1) |-> IF j < k THEN s[j] ELSE s[j + 1]]

RECURSIVE RemoveRows(_, _)
RemoveRows(s, rows) ==
    IF rows = {} THEN s
    ELSE LET r == CHOOSE x \in rows : \A y \in rows : x >= y
         IN RemoveRows(RemoveAt(s, r), rows \ {r})

(* datetime.now().strftime("%Y%m%d_%H%M%S"): the instant cut to the second *)
get_timestamp_string(t) == <<t \div TicksPerSecond>>

(* datetime.isoformat(): the fraction is left out when it is zero *)
isoformat(t) == IF t % TicksPerSecond = 0
                THEN <<t \div TicksPerSecond>>
                ELSE <<t \div TicksPerSecond, t % TicksPerSecond>>

DbPath(dir, stamp) == <<dir, stamp>>

VARIABLES
    now,               \* the wall clock, in ticks
    procs,             \* the OS process table: pid -> name, or Nil
    denied,            \* the pids whose metrics the monitor may not read
    save_state,        \* ConfigManager.save_config: its position and its files
    heap,              \* the dict objects of the configuration, by address
    platform,          \* platform.system().lower()
    collector,         \* MonitorWindow.collector
    refresh_timer,     \* whether start_refresh_timer has run
    output_dir_input,  \* text of the output directory field
    interval_spin,     \* value of the interval spin box
    monitored_table,   \* the watch-list rows, in order
    running_table,     \* the published live process names, in order
    config,            \* ConfigManager.config as last saved
    monitoring,        \* MonitorWindow.monitoring
    monitor_thread,    \* MonitorWindow.monitor_thread
    db_manager,        \* MonitorWindow.db_manager: its db_path
    last_record_time,  \* MonitorWindow.last_record_time
    ui_pc,             \* what the presentation thread is doing
    join_deadline,     \* when the pending join(timeout=2) gives up
    threads,           \* every monitor_loop thread ever started
    stores,            \* the database files: path -> tables
    calls              \* the store calls a direct caller has made, in order

vars == <<now, procs, denied, save_state, heap, platform, collector, refresh_timer, output_dir_input,
          interval_spin, monitored_table, running_table, config, monitoring,
          monitor_thread, db_manager, last_record_time, ui_pc, join_deadline,
          threads, stores, calls>>

env_vars == <<procs, denied, save_state, heap, platform, calls>>
ui_vars == <<collector, refresh_timer, output_dir_input, interval_spin,
             monitored_table, running_table, config>>
run_vars == <<monitoring, monitor_thread, db_manager, last_record_time>>

(* ------------------------------ the store ----------------------------- *)
EmptyStore == [processes |-> {}, system_info |-> {},
               seq_processes |-> 0, seq_system_info |-> 0]

(* DatabaseManager.__init__: CREATE TABLE IF NOT EXISTS keeps an existing file *)
DatabaseManager(st, path) ==
    IF path \in DOMAIN st THEN st ELSE st @@ (path :> EmptyStore)

(* ---- extra_metrics: a dict, and the JSON text of the column ---- *)
(* A dict is a sequence of <<key, value>> pairs, its keys distinct; a key is
   a str or an int.  A column is NULL, or a text: the empty text, a JSON
   object (its keys are strings) or a text that is not JSON. *)
(* str(n), for the ints of the model *)
str_of_int(n) == IF n = 0 THEN "0" ELSE IF n = 1 THEN "1" ELSE "2"

\* a key carries its type and its text: the int 1 is not the str "1"
StrKey(k) == [t |-> "str", s |-> k]
IntKey(n) == [t |-> "int", s |-> str_of_int(n)]

(* the name json.dumps gives a key: an int key becomes its decimal text *)
json_key(k) == k.s

NullColumn == [kind |-> "null", pairs |-> <<>>]
EmptyText == [kind |-> "text", pairs |-> <<>>]
NotJson == [kind |-> "garbage", pairs |-> <<>>]

(* json.dumps(d) *)
json_dumps(d) ==
    [kind |-> "json",
     pairs |-> [k \in 1..Len(d) |-> <<json_key(d[k][1]), d[k][2]>>]]

(* json.loads of a JSON object: a dict with str keys, the last value of a
   repeated key where its first occurrence stood *)
json_loads(col) ==
    LET ps == col.pairs
        first == {k \in 1..Len(ps) : \A j \in 1..(k - 1) : ps[j][1] # ps[k][1]}
        last(k) == CHOOSE j \in 1..Len(ps) :
                       /\ ps[j][1] = ps[k][1]
                       /\ \A h \in (j + 1)..Len(ps) : ps[h][1] # ps[k][1]
        order == SortedSeq(first)
    IN [i \in 1..Len(order) |-> <<StrKey(ps[order[i]][1]), ps[last(order[i])][2]>>]

(* json.dumps(process_info.extra_metrics) if process_info.extra_metrics
   else '{}' *)
extra_metrics_json(d) == IF d # <<>> THEN json_dumps(d) ELSE json_dumps(<<>>)

(* a plain INSERT into a table without the UNIQUE(timestamp, pid) constraint *)
insert_process_info_plain(db, info, t, writer) ==
    LET row == [id |-> db.seq_processes + 1, timestamp |-> isoformat(t),
                pid |-> info.pid, name |-> info.name,
                cpu_percent |-> info.cpu_percent,
                memory_mb |-> info.memory_mb,
                extra_metrics |-> extra_metrics_json(info.extra_metrics),
                sampled |-> info.sampled, writer |-> writer]
    IN [db EXCEPT !.processes = db.processes \cup {row},
                  !.seq_processes = db.seq_processes + 1]

(* INSERT OR REPLACE INTO processes, UNIQUE(timestamp, pid) *)
insert_process_info(db, info, t, writer) ==
    LET ts == isoformat(t)
        kept == {r \in db.processes : ~(r.timestamp = ts /\ r.pid = info.pid)}
        row == [id |-> db.seq_processes + 1, timestamp |-> ts,
                pid |-> info.pid, name |-> info.name,
                cpu_percent |-> info.cpu_percent,
                memory_mb |-> info.memory_mb,
                extra_metrics |-> extra_metrics_json(info.extra_metrics),
                sampled |-> info.sampled, writer |-> writer]
    IN [db EXCEPT !.processes = kept \cup {row},
                  !.seq_processes = db.seq_processes + 1]

(* INSERT OR IGNORE: a colliding write is dropped, the first row stays *)
insert_system_info_ignore(db, info, writer) ==
    LET ts == isoformat(info.timestamp)
        row == [id |-> db.seq_system_info + 1, timestamp |-> ts,
                cpu_percent |-> info.cpu_percent,
                extra_metrics |-> extra_metrics_json(info.extra_metrics),
                sampled |-> info.timestamp, writer |-> writer]
    IN IF \E r \in db.system_info : r.timestamp = ts
       THEN [db EXCEPT !.seq_system_info = db.seq_system_info + 1]
       ELSE [db EXCEPT !.system_info = db.system_info \cup {row},
                       !.seq_system_info = db.seq_system_info + 1]

(* INSERT OR REPLACE INTO system_info, timestamp UNIQUE *)
insert_system_info(db, info, writer) ==
    LET ts == isoformat(info.timestamp)
        kept == {r \in db.system_info : r.timestamp # ts}
        row == [id |-> db.seq_system_info + 1, timestamp |-> ts,
                cpu_percent |-> info.cpu_percent,
                extra_metrics |-> extra_metrics_json(info.extra_metrics),
                sampled |-> info.timestamp, writer |-> writer]
    IN [db EXCEPT !.system_info = kept \cup {row},
                  !.seq_system_info = db.seq_system_info + 1]

(* ----------------------------- the collector -------------------------- *)
Pids == DOMAIN procs

(* LinuxCollector.get_process_by_pid: a fresh psutil.Process handle, whose
   first cpu_percent(interval=None) is 0.0; None (Nil) when the process is
   gone (NoSuchProcess, ZombieProcess) or its metrics are not readable
   (AccessDenied).  `alive` are the pids that exist when the call is made. *)
\* psutil.Process(pid): a new handle, on which cpu_percent was never called
Process(pid) == [pid |-> pid, last_cpu_times |-> Nil]

\* proc.cpu_percent(interval=None): 0, the 0.0 of a handle without a
\* baseline, on the first call; 1, a value measured since the previous
\* call on the handle, afterwards
proc_cpu_percent(proc, t) == IF proc.last_cpu_times = Nil THEN 0 ELSE 1

get_process_by_pid(pid, t, alive) ==
    IF pid \notin alive \/ pid \in denied THEN Nil
    ELSE <<[pid |-> pid, name |-> procs[pid],
            cpu_percent |-> proc_cpu_percent(Process(pid), t),
            memory_mb |-> pid,
            extra_metrics |-> <<(<<StrKey("num_threads"), 1>>)>>,
            sampled |-> t]>>

(* LinuxCollector.get_processes_by_name: process_iter in pid order over the
   processes listed, each match sampled by get_process_by_pid and kept
   `if process_info`.  sample_each_until_failure is the loop that ends at
   the first process it cannot sample. *)
RECURSIVE sample_each_until_failure(_, _, _)
sample_each_until_failure(order, t, alive) ==
    IF order = <<>> THEN <<>>
    ELSE IF get_process_by_pid(Head(order), t, alive) = Nil THEN <<>>
    ELSE get_process_by_pid(Head(order), t, alive)
             \o sample_each_until_failure(Tail(order), t, alive)

RECURSIVE sample_each(_, _, _)
sample_each(order, t, alive) ==
    IF order = <<>> THEN <<>>
    ELSE get_process_by_pid(Head(order), t, alive)
             \o sample_each(Tail(order), t, alive)

\* get_processes_by_name comparing the names as they are written
get_processes_by_name_exact(name, t, alive) ==
    LET match == {p \in Pids : procs[p] # Nil /\ procs[p] = name}
    IN sample_each(SortedSeq(match), t, alive)

get_processes_by_name(name, t, alive) ==
    LET match == {p \in Pids : procs[p] # Nil /\ lower(procs[p]) = lower(name)}
    IN sample_each(SortedSeq(match), t, alive)

(* LinuxCollector.get_system_info *)
get_system_info(t) == [timestamp |-> t, cpu_percent |-> 1,
                       extra_metrics |-> <<>>]

(* ------------------------------- threads ------------------------------ *)
NoThread == [pc |-> "none", interval |-> 0, monitored_names |-> {},
             processes_to_record |-> <<>>, wake |-> 0,
             warm |-> Nil, stopped |-> FALSE, faulted |-> FALSE,
             listed |-> {}, db |-> Nil,
             tick |-> [at |-> 0, matched |-> {}, exited |-> {}],
             ticks |-> 0]

Alive(t) == threads[t].pc \notin {"none", "done"}
Sleeping(t) == threads[t].pc \in {"sleep0", "sleep"}
InTick(t) == threads[t].pc \in {"resolve", "insert", "insert_sys"}

(* ------------------------------ the clock ----------------------------- *)
Tick ==
    /\ now < MaxTime
    /\ \A t \in Tids : Sleeping(t) => now < threads[t].wake + MaxOversleep
    /\ now' = now + 1
    /\ UNCHANGED <<env_vars, ui_vars, run_vars, ui_pc, join_deadline,
                   threads, stores>>

(* --------------------------- text of names ---------------------------- *)
IsSpace(c) == c \in {9, 10, 13, 32}

RECURSIVE lstrip(_)
lstrip(s) == IF s # <<>> /\ IsSpace(Head(s)) THEN lstrip(Tail(s)) ELSE s

RECURSIVE rstrip(_)
rstrip(s) == IF s # <<>> /\ IsSpace(s[Len(s)])
             THEN rstrip(SubSeq(s, 1, Len(s) - 1)) ELSE s

(* str.strip() *)
strip(s) == rstrip(lstrip(s))

(* Python's < on str: by code point, a proper prefix first *)
StrLess(a, b) ==
    \E k \in 1..(Len(a) + 1) :
        /\ \A j \in 1..(k - 1) : j <= Len(b) /\ a[j] = b[j]
        /\ \/ k = Len(a) + 1 /\ Len(b) >= k
           \/ k <= Len(a) /\ k <= Len(b) /\ a[k] < b[k]

(* --------------------------- the store: queries ---------------------- *)
(* SQLite's MIN and MAX over a TEXT column: by bytes, a proper prefix first *)
MinText(S) == CHOOSE x \in S : \A y \in S : x = y \/ StrLess(x, y)
MaxText(S) == CHOOSE x \in S : \A y \in S : x = y \/ StrLess(y, x)

(* DatabaseManager.get_time_range:
   SELECT MIN(timestamp), MAX(timestamp) FROM processes *)
get_time_range(db) ==
    LET stamps == {r.timestamp : r \in db.processes}
    IN IF stamps = {} THEN <<Nil, Nil>>
       ELSE <<MinText(stamps), MaxText(stamps)>>

\* the reading of the column with json.loads outside any try
read_extra_metrics_no_except(col) ==
    IF col.kind = "null" THEN [type |-> "NoneType", pairs |-> <<>>]
    ELSE IF col.kind = "text" THEN [type |-> "str", pairs |-> <<>>]
    ELSE IF col.kind = "json" THEN [type |-> "dict", pairs |-> json_loads(col)]
    ELSE [type |-> "JSONDecodeError", pairs |-> <<>>]

(* the value get_process_data leaves in data['extra_metrics']: a column
   that is falsy (NULL, or the empty text) is left as it is; another text
   goes through json.loads, and becomes {} when that raises *)
read_extra_metrics(col) ==
    IF col.kind = "null" THEN [type |-> "NoneType", pairs |-> <<>>]
    ELSE IF col.kind = "text" THEN [type |-> "str", pairs |-> <<>>]
    ELSE IF col.kind = "json" THEN [type |-> "dict", pairs |-> json_loads(col)]
    ELSE [type |-> "dict", pairs |-> <<>>]

(* an optional argument that adds no condition: `is not None` for pid and
   name, truthiness for start_time and end_time *)
IsNone(arg) == arg = Nil
Falsy(arg) == arg = Nil \/ arg[1] = <<>>

(* a query that tests the pid by truthiness, as it does the times *)
where_clause_truthy_pid(r, pid, name, start_time, end_time) ==
    /\ (pid = Nil \/ pid[1] = 0) \/ r.pid = pid[1]
    /\ IsNone(name) \/ r.name = name[1]
    /\ Falsy(start_time) \/ ~StrLess(r.timestamp, start_time[1])
    /\ Falsy(end_time) \/ ~StrLess(end_time[1], r.timestamp)

(* WHERE 1=1 AND pid = ? AND name = ? AND timestamp >= ? AND timestamp <= ?,
   each condition only when its argument is given *)
where_clause(r, pid, name, start_time, end_time) ==
    /\ IsNone(pid) \/ r.pid = pid[1]
    /\ IsNone(name) \/ r.name = name[1]
    /\ Falsy(start_time) \/ ~StrLess(r.timestamp, start_time[1])
    /\ Falsy(end_time) \/ ~StrLess(end_time[1], r.timestamp)

(* ORDER BY timestamp; rows of one timestamp in the order of their rowid *)
RECURSIVE order_by_timestamp(_)
order_by_timestamp(rows) ==
    IF rows = {} THEN <<>>
    ELSE LET m == CHOOSE r \in rows : \A q \in rows :
                      \/ StrLess(r.timestamp, q.timestamp)
                      \/ (r.timestamp = q.timestamp /\ r.id <= q.id)
         IN <<m>> \o order_by_timestamp(rows \ {m})

(* DatabaseManager.get_process_data *)
get_process_data(db, pid, name, start_time, end_time) ==
    LET rows == order_by_timestamp(
                    {r \in db.processes :
                         where_clause(r, pid, name, start_time, end_time)})
    IN [k \in 1..Len(rows) |->
           [rows[k] EXCEPT !.extra_metrics = read_extra_metrics(@)]]

(* DatabaseManager.get_system_data: WHERE 1=1 AND timestamp >= ? AND
   timestamp <= ?, ORDER BY timestamp *)
get_system_data(db, start_time, end_time) ==
    LET rows == order_by_timestamp(
                    {r \in db.system_info :
                         /\ Falsy(start_time)
                                \/ ~StrLess(r.timestamp, start_time[1])
                         /\ Falsy(end_time)
                                \/ ~StrLess(end_time[1], r.timestamp)})
    IN [k \in 1..Len(rows) |->
           [rows[k] EXCEPT !.extra_metrics = read_extra_metrics(@)]]

(* the lower-cased names of the watch-list rows *)
monitored_names_of(table) == {lower(table[k]) : k \in 1..Len(table)}

InTable(table, name) ==
    \E k \in 1..Len(table) : lower(table[k]) = lower(name)

(* ---------------------------- configuration --------------------------- *)
(* MonitorWindow.save_config: the fields go to the ConfigManager and the file *)
save_config ==
    [output_dir |-> output_dir_input, record_interval |-> interval_spin,
     monitored_processes |-> monitored_table]

(* the file at config_path and its sibling config_path + '.tmp': missing,
   or holding nothing, a part or the whole of the JSON text of a document *)
\* the values of a configuration: a scalar by its text, a dict by its items
\* in order (a key is the sequence of its dot-free pieces), and a reference
\* to a dict object by the object's address in heap
Dot == "."
Leaf(text) == [t |-> "leaf", leaf |-> text, items |-> <<>>]
Dict(items) == [t |-> "dict", leaf |-> "", items |-> items]
Ref(address) == [t |-> "ref", leaf |-> "", items |-> <<address>>]

(* the objects of the class attribute ConfigManager.DEFAULT_CONFIG: the dict
   itself at address 1, its "monitor_by_pid" dict at 2, its "ui" dict at 3 *)
DefaultHeap ==
    << << <<(<<"output_dir">>), Leaf("D:\\system_performance_record")>>,
          <<(<<"record_interval">>), Leaf("5")>>,
          <<(<<"monitored_processes">>), Leaf("[]")>>,
          <<(<<"monitor_by_pid">>), Ref(2)>>,
          <<(<<"ui">>), Ref(3)>> >>,
       <<>>,
       << <<(<<"window_width">>), Leaf("1200")>>,
          <<(<<"window_height">>), Leaf("800")>> >> >>

Missing == [state |-> "missing", doc |-> Nil]
Empty == [state |-> "empty", doc |-> Nil]
Partial(doc) == [state |-> "partial", doc |-> <<doc>>]
Complete(doc) == [state |-> "complete", doc |-> <<doc>>]

(* ConfigManager.save_config run from its first line to its last *)
saved(doc) == [pc |-> "idle", target |-> Complete(doc), temp |-> Missing,
               caller |-> "", previous |-> Missing, raised |-> FALSE]

\* the loop of load_config with `proc not in seen`: casing told apart
RECURSIVE unique_processes_exact(_, _)
unique_processes_exact(list, acc) ==
    IF list = <<>> THEN acc
    ELSE unique_processes_exact(Tail(list),
             IF \E k \in 1..Len(acc) : acc[k] = Head(list)
             THEN acc ELSE Append(acc, Head(list)))

(* MonitorWindow.load_config: keep the first of each case-insensitive name *)
RECURSIVE unique_processes(_, _)
unique_processes(list, acc) ==
    IF list = <<>> THEN acc
    ELSE unique_processes(Tail(list),
             IF InTable(acc, Head(list)) THEN acc ELSE Append(acc, Head(list)))

\* create_collector with LinuxCollector for every platform but windows
create_collector_fallback(p) ==
    IF p = "windows" THEN "WindowsCollector" ELSE "LinuxCollector"

(* utils.platform_utils.get_platform, collector_factory.create_collector *)
create_collector(p) ==
    IF p = "windows" THEN "WindowsCollector"
    ELSE IF p = "linux" THEN "LinuxCollector"
    ELSE None

(* the state once MonitorWindow.__init__ has returned *)
Init ==
    /\ now = 0
    /\ procs = (1 :> <<67>>)
    /\ denied = {}
    /\ platform \in Platforms
    /\ collector = None
    /\ refresh_timer = FALSE
    /\ config \in [output_dir : Dirs, record_interval : Intervals,
                   monitored_processes : {<<>>}]
    /\ output_dir_input = config.output_dir
    /\ interval_spin = config.record_interval
    /\ monitored_table = unique_processes(config.monitored_processes, <<>>)
    /\ running_table = <<>>
    /\ monitoring = FALSE
    /\ monitor_thread = Nil
    /\ db_manager = Nil
    /\ last_record_time = Nil
    /\ ui_pc = "idle"
    /\ join_deadline = 0
    /\ threads = [t \in Tids |-> NoThread]
    /\ stores = <<>>
    /\ save_state = saved(config)
    /\ heap = DefaultHeap
    /\ calls = <<>>

(* -------------------- presentation thread: handlers ------------------- *)
UiIdle == ui_pc = "idle"

(* MonitorWindow._delayed_init, 100 ms after construction *)
DelayedInit ==
    /\ UiIdle
    /\ collector = None
    /\ ~refresh_timer
    /\ create_collector(platform) # None
    /\ collector' = create_collector(platform)
    /\ refresh_timer' = TRUE
    /\ UNCHANGED <<now, env_vars, output_dir_input, interval_spin,
                   monitored_table, running_table, config, run_vars, ui_pc,
                   join_deadline, threads, stores>>

(* MonitorWindow.browse_output_dir: a cancelled dialog returns "" *)
BrowseOutputDir(directory) ==
    /\ UiIdle
    /\ output_dir_input' = IF directory # "" THEN directory ELSE output_dir_input
    /\ UNCHANGED <<now, env_vars, collector, refresh_timer, interval_spin,
                   monitored_table, running_table, config, run_vars, ui_pc,
                   join_deadline, threads, stores>>

(* the user edits the interval spin box *)
SetInterval(v) ==
    /\ UiIdle
    /\ interval_spin' = v
    /\ UNCHANGED <<now, env_vars, collector, refresh_timer, output_dir_input,
                   monitored_table, running_table, config, run_vars, ui_pc,
                   join_deadline, threads, stores>>

(* add_process without the test for a row of the same lower-cased name *)
add_process_unchecked(table, text) ==
    LET process_name == strip(text)
    IN IF process_name = <<>> THEN table ELSE Append(table, process_name)

(* MonitorWindow.add_process *)
add_process(table, text) ==
    LET process_name == strip(text)
    IN IF process_name = <<>> THEN table
       ELSE IF InTable(table, process_name) THEN table
       ELSE Append(table, process_name)

AddProcess(text) ==
    /\ UiIdle
    /\ monitored_table' = add_process(monitored_table, text)
    /\ UNCHANGED <<now, env_vars, collector, refresh_timer, output_dir_input,
                   interval_spin, running_table, config, run_vars, ui_pc,
                   join_deadline, threads, stores>>

(* MonitorWindow.remove_selected_process *)
RemoveSelectedProcess(rows) ==
    /\ UiIdle
    /\ rows \subseteq 1..Len(monitored_table)
    /\ monitored_table' = RemoveRows(monitored_table, rows)
    /\ UNCHANGED <<now, env_vars, collector, refresh_timer, output_dir_input,
                   interval_spin, running_table, config, run_vars, ui_pc,
                   join_deadline, threads, stores>>

(* MonitorWindow._add_process_to_monitor *)
_add_process_to_monitor(table, row) ==
    IF row \notin 1..Len(running_table) THEN table
    ELSE IF InTable(table, running_table[row]) THEN table
    ELSE Append(table, running_table[row])

RECURSIVE add_rows(_, _)
add_rows(table, selected_rows) ==
    IF selected_rows = <<>> THEN table
    ELSE add_rows(_add_process_to_monitor(table, Head(selected_rows)),
                  Tail(selected_rows))

(* MonitorWindow.add_to_monitor and on_running_table_double_clicked: the
   selected rows of the running table, in the order the selection gives them *)
AddToMonitor(selected_rows) ==
    /\ UiIdle
    /\ Range(selected_rows) \subseteq 1..Len(running_table)
    /\ monitored_table' = add_rows(monitored_table, selected_rows)
    /\ UNCHANGED <<now, env_vars, collector, refresh_timer, output_dir_input,
                   interval_spin, running_table, config, run_vars, ui_pc,
                   join_deadline, threads, stores>>

(* ------------------------ the process list refresher ------------------ *)
(* LinuxCollector.get_process_list_fast: the live names, in pid order *)
get_process_list_fast ==
    LET order == SortedSeq({p \in Pids : procs[p] # Nil})
    IN [k \in 1..Len(order) |-> procs[order[k]]]

(* the first name seen for each lower-cased name *)
process_names_seen(new_processes) ==
    {new_processes[k] : k \in {j \in 1..Len(new_processes) :
        \A h \in 1..(j - 1) : lower(new_processes[h]) # lower(new_processes[j])}}

(* sorted(..., key=lambda n: n.lower()) *)
RECURSIVE sorted_by_lower(_)
sorted_by_lower(S) ==
    IF S = {} THEN <<>>
    ELSE LET m == CHOOSE x \in S :
                      \A y \in S : ~StrLess(lower(y), lower(x))
         IN <<m>> \o sorted_by_lower(S \ {m})

InsertAt(s, k, x) ==
    [j \in 1..(Len(s) + 1) |-> IF j < k THEN s[j] ELSE IF j = k THEN x ELSE s[j - 1]]

(* the row before which a new name goes: the first row that sorts after it *)
insert_row(table, name) ==
    LET later == {r \in 1..Len(table) : StrLess(lower(name), lower(table[r]))}
    IN IF later = {} THEN Len(table) + 1 ELSE Min(later)

RECURSIVE add_names(_, _, _)
add_names(table, unique_names, names_to_add) ==
    IF unique_names = <<>> THEN table
    ELSE LET name == Head(unique_names)
         IN add_names(IF lower(name) \in names_to_add
                      THEN InsertAt(table, insert_row(table, name), name)
                      ELSE table,
                      Tail(unique_names), names_to_add)

(* a refresh that clears the table and publishes the new names afresh *)
refreshed_full_replace(table, new_processes) ==
    sorted_by_lower(process_names_seen(new_processes))

(* the incremental update of refresh_running_processes *)
refreshed(table, new_processes) ==
    LET unique_names == sorted_by_lower(process_names_seen(new_processes))
        new_names == {lower(n) : n \in Range(unique_names)}
        current_names == {lower(n) : n \in Range(table)}
        names_to_remove == current_names \ new_names
        names_to_add == new_names \ current_names
        rows_to_remove == {r \in 1..Len(table) : lower(table[r]) \in names_to_remove}
    IN add_names(RemoveRows(table, rows_to_remove), unique_names, names_to_add)

(* MonitorWindow.refresh_running_processes, on the refresh timer: it returns
   at once while monitoring or without a collector *)
RefreshBegin ==
    /\ UiIdle
    /\ refresh_timer
    /\ ~monitoring
    /\ collector # None
    /\ ui_pc' = "refresh"
    /\ UNCHANGED <<now, env_vars, ui_vars, run_vars, join_deadline, threads,
                   stores>>

RefreshEnd ==
    /\ ui_pc = "refresh"
    /\ running_table' = refreshed(running_table, get_process_list_fast)
    /\ ui_pc' = "idle"
    /\ UNCHANGED <<now, env_vars, collector, refresh_timer, output_dir_input,
                   interval_spin, monitored_table, config, run_vars,
                   join_deadline, threads, stores>>

(* --------------------------- start and stop --------------------------- *)
FreeTids == {t \in Tids : threads[t].pc = "none"}

StartPreconditions ==
    /\ collector # None
    /\ output_dir_input # ""
    /\ Len(monitored_table) # 0

(* start_monitoring without the check of the output directory *)
start_monitoring_any_dir ==
    IF collector = None
    THEN UNCHANGED <<config, run_vars, threads, stores>>
    ELSE /\ config' = save_config
         /\ IF Len(monitored_table) = 0
            THEN UNCHANGED <<run_vars, threads, stores>>
            ELSE LET db_path == DbPath(output_dir_input, get_timestamp_string(now))
                     t == Min(FreeTids)
                 IN /\ FreeTids # {}
                    /\ stores' = DatabaseManager(stores, db_path)
                    /\ db_manager' = db_path
                    /\ monitoring' = TRUE
                    /\ last_record_time' = Nil
                    /\ monitor_thread' = <<t>>
                    /\ threads' = [threads EXCEPT ![t] =
                           [NoThread EXCEPT !.pc = "start", !.db = db_path,
                               !.listed = monitored_names_of(monitored_table)]]

(* MonitorWindow.start_monitoring *)
start_monitoring ==
    IF collector = None
    THEN UNCHANGED <<config, run_vars, threads, stores>>
    ELSE /\ config' = save_config
         /\ IF output_dir_input = "" \/ Len(monitored_table) = 0
            THEN UNCHANGED <<run_vars, threads, stores>>
            ELSE LET db_path == DbPath(output_dir_input, get_timestamp_string(now))
                     t == Min(FreeTids)
                 IN /\ FreeTids # {}
                    /\ stores' = DatabaseManager(stores, db_path)
                    /\ db_manager' = db_path
                    /\ monitoring' = TRUE
                    /\ last_record_time' = Nil
                    /\ monitor_thread' = <<t>>
                    /\ threads' = [threads EXCEPT ![t] =
                           [NoThread EXCEPT !.pc = "start", !.db = db_path,
                               !.listed = monitored_names_of(monitored_table)]]

\* start_monitoring with the flag set before the store is created
start_monitoring_raises_flag_first ==
    /\ config' = save_config
    /\ monitoring' = TRUE
    /\ UNCHANGED <<monitor_thread, db_manager, last_record_time, threads,
                   stores>>

(* MonitorWindow.start_monitoring when DatabaseManager(db_path) raises in
   mkdir: save_config and the checks before it have run, the assignment of
   self.db_manager and the statements after it have not *)
start_monitoring_raises ==
    /\ config' = save_config
    /\ UNCHANGED <<run_vars, threads, stores>>

StartMonitoringRaises ==
    /\ UiIdle
    /\ ~monitoring
    /\ StartPreconditions
    /\ start_monitoring_raises
    /\ save_state' = saved(save_config)
    /\ ui_pc' = "raised"
    /\ UNCHANGED <<now, procs, denied, heap, platform, calls, collector,
                   refresh_timer, output_dir_input, interval_spin,
                   monitored_table, running_table, join_deadline>>

(* the exception leaves the slot: no statement of the window handles it *)
SlotRaised ==
    /\ ui_pc = "raised"
    /\ ui_pc' = "idle"
    /\ UNCHANGED <<now, env_vars, ui_vars, run_vars, join_deadline, threads,
                   stores>>

StartMonitoring ==
    /\ UiIdle
    /\ ~monitoring
    /\ start_monitoring
    /\ save_state' = IF collector = None THEN save_state ELSE saved(save_config)
    /\ UNCHANGED <<now, procs, denied, heap, platform, calls, collector,
                   refresh_timer, output_dir_input, interval_spin,
                   monitored_table, running_table, ui_pc, join_deadline>>

(* MonitorWindow.stop_monitoring, up to the join *)
stop_monitoring ==
    /\ monitoring' = FALSE
    /\ IF monitor_thread # Nil
       THEN /\ ui_pc' = "join"
            /\ join_deadline' = now + JoinTimeout * TicksPerSecond
            /\ threads' = [threads EXCEPT ![monitor_thread[1]].stopped = TRUE]
       ELSE UNCHANGED <<ui_pc, join_deadline, threads>>

StopMonitoring ==
    /\ UiIdle
    /\ monitoring
    /\ stop_monitoring
    /\ UNCHANGED <<now, env_vars, ui_vars, monitor_thread, db_manager,
                   last_record_time, stores>>

\* monitor_thread.join(): no timeout, it returns when the thread has ended
JoinReturn_when_ended ==
    /\ ui_pc = "join"
    /\ ~Alive(monitor_thread[1])
    /\ ui_pc' = "idle"
    /\ UNCHANGED <<now, env_vars, ui_vars, run_vars, join_deadline, threads,
                   stores>>

(* monitor_thread.join(timeout=2) returns: the thread ended, or time is up *)
JoinReturn ==
    /\ ui_pc = "join"
    /\ ~Alive(monitor_thread[1]) \/ now >= join_deadline
    /\ ui_pc' = "idle"
    /\ UNCHANGED <<now, env_vars, ui_vars, run_vars, join_deadline, threads,
                   stores>>

(* ------------------------ monitor_loop, per thread -------------------- *)
SleepUntil(interval) == now + interval * TicksPerSecond

(* monitor_loop up to its first sleep: interval_spin.value(), the snapshot
   of the watch-list, the throwaway cpu_percent calls, time.sleep(interval) *)
ThreadBegin(t) ==
    /\ threads[t].pc = "start"
    /\ threads' = [threads EXCEPT
           ![t].interval = interval_spin,
           ![t].monitored_names = monitored_names_of(monitored_table),
           ![t].warm = <<now>>,
           ![t].wake = SleepUntil(interval_spin),
           ![t].pc = "sleep0"]
    /\ UNCHANGED <<now, env_vars, ui_vars, run_vars, ui_pc, join_deadline,
                   stores>>

\* a loop that tests the flag only after its first tick
do_while_monitoring(flag) == "resolve"

(* what `while self.monitoring` leads to *)
while_monitoring(flag) == IF flag THEN "resolve" ELSE "done"

(* the sleep ends and `while self.monitoring` is tested *)
WakeAndCheck(t) ==
    /\ Sleeping(t)
    /\ now >= threads[t].wake
    /\ threads' = [threads EXCEPT
           ![t].wake = 0,
           ![t].pc = while_monitoring(monitoring)]
    /\ UNCHANGED <<now, env_vars, ui_vars, run_vars, ui_pc, join_deadline,
                   stores>>

(* processes_to_record.extend(get_processes_by_name(name_lower)), for the
   names in the order the set gives them *)
RECURSIVE resolve_all(_, _, _)
resolve_all(names, t, alive) ==
    IF names = <<>> THEN <<>>
    ELSE get_processes_by_name(Head(names), t, alive)
             \o resolve_all(Tail(names), t, alive)

(* `for name_lower in monitored_names`: the names of the snapshot *)
names_to_resolve(t) == threads[t].monitored_names

NameOrders(S) ==
    {o \in [1..Cardinality(S) -> S] : \A a, b \in 1..Cardinality(S) : a # b => o[a] # o[b]}

LivePids == {p \in Pids : procs[p] # Nil}

(* the processes process_iter lists under one of the names *)
Matched(names) == {p \in LivePids : lower(procs[p]) \in names}

(* the resolution of a tick; the processes of `exited` end after
   process_iter has listed them and before psutil.Process(pid) samples them *)
Resolve(t) ==
    /\ threads[t].pc = "resolve"
    /\ \E exited \in SUBSET LivePids :
       \E order \in NameOrders(names_to_resolve(t)) :
           LET to_record == resolve_all(order, now, LivePids \ exited)
           IN /\ threads' = [threads EXCEPT
                     ![t].processes_to_record = to_record,
                     ![t].tick = [at |-> now,
                                  matched |-> Matched(names_to_resolve(t)),
                                  exited |-> exited \cap Matched(names_to_resolve(t))],
                     ![t].pc = IF to_record # <<>> THEN "insert" ELSE "insert_sys"]
              /\ procs' = [p \in Pids |-> IF p \in exited THEN Nil ELSE procs[p]]
    /\ UNCHANGED <<now, denied, save_state, heap, platform, calls, ui_vars, run_vars, ui_pc,
                   join_deadline, stores>>

(* self.db_manager.insert_process_info(proc_info) *)
InsertProcess(t) ==
    /\ threads[t].pc = "insert"
    /\ LET proc_info == Head(threads[t].processes_to_record)
           rest == Tail(threads[t].processes_to_record)
       IN /\ stores' = [stores EXCEPT ![db_manager] =
                 insert_process_info(stores[db_manager], proc_info, now, t)]
          /\ threads' = [threads EXCEPT
                 ![t].processes_to_record = rest,
                 ![t].pc = IF rest = <<>> THEN "insert_sys" ELSE "insert"]
    /\ UNCHANGED <<now, env_vars, ui_vars, run_vars, ui_pc, join_deadline>>

(* get_system_info, insert_system_info, last_record_time = datetime.now(),
   time.sleep(interval) *)
InsertSystem(t) ==
    /\ threads[t].pc = "insert_sys"
    /\ stores' = [stores EXCEPT ![db_manager] =
           insert_system_info(stores[db_manager], get_system_info(now), t)]
    /\ last_record_time' = <<now>>
    /\ threads' = [threads EXCEPT
           ![t].wake = SleepUntil(threads[t].interval),
           ![t].ticks = @ + 1,
           ![t].pc = "sleep"]
    /\ UNCHANGED <<now, env_vars, ui_vars, monitoring, monitor_thread,
                   db_manager, ui_pc, join_deadline>>

(* where a tick goes when a step of it raises: except Exception, print,
   time.sleep(interval) *)
except_outside_loop(th) ==
    [th EXCEPT !.processes_to_record = <<>>, !.faulted = TRUE, !.pc = "done"]

\* an except clause that goes back to the loop test without sleeping
except_handler_no_sleep(th) ==
    [th EXCEPT !.processes_to_record = <<>>,
               !.faulted = TRUE,
               !.wake = SleepUntil(0),
               !.pc = "sleep"]

except_handler(th) ==
    [th EXCEPT !.processes_to_record = <<>>,
               !.faulted = TRUE,
               !.wake = SleepUntil(th.interval),
               !.pc = "sleep"]

(* a step of the tick raises: name resolution, a store write, the system sample *)
TickFault(t) ==
    /\ InTick(t)
    /\ threads' = [threads EXCEPT ![t] = except_handler(threads[t])]
    /\ UNCHANGED <<now, env_vars, ui_vars, run_vars, ui_pc, join_deadline,
                   stores>>

(* ----------------------------- specification -------------------------- *)
\* "c", "", " c"
TextInputs == {<<99>>, <<>>, <<32, 99>>}

UiNext ==
    \/ DelayedInit
    \/ \E text \in TextInputs : AddProcess(text)
    \/ \E rows \in SUBSET (1..1) : RemoveSelectedProcess(rows)
    \/ RefreshBegin
    \/ RefreshEnd
    \/ StartMonitoring
    \/ StopMonitoring
    \/ JoinReturn

ThreadNext ==
    \E t \in Tids :
        \/ ThreadBegin(t)
        \/ WakeAndCheck(t)
        \/ Resolve(t)
        \/ InsertProcess(t)
        \/ InsertSystem(t)
        \/ TickFault(t)

Next == Tick \/ UiNext \/ ThreadNext

Spec == Init /\ [][Next]_vars

(* ------------- the two lists of the window, no session ---------------- *)
\* the names a process of the machine may have, by pid: "C", "c", "v"
WatchProcNames == (1 :> <<67>>) @@ (2 :> <<99>>) @@ (3 :> <<118>>)

\* the watch-lists the configuration file may hold:
\* [], ["c", "C"], ["C", "v", "c"]
WatchConfigLists == {<<>>, <<(<<99>>), (<<67>>)>>,
                     <<(<<67>>), (<<118>>), (<<99>>)>>}

\* what the user may type: "c", "C", " c", "", "v"
WatchTextInputs == {<<99>>, <<67>>, <<32, 99>>, <<>>, <<118>>}

\* the selections of the running table, in the order they were made
WatchSelections == {<<1>>, <<2>>, <<1, 2>>, <<2, 1>>}

InitWatch ==
    /\ now = 0
    /\ procs \in [DOMAIN WatchProcNames -> {Nil}]
    /\ denied = {}
    /\ platform = "linux"
    /\ collector = None
    /\ refresh_timer = FALSE
    /\ config \in [output_dir : {"out"}, record_interval : {2},
                   monitored_processes : WatchConfigLists]
    /\ output_dir_input = config.output_dir
    /\ interval_spin = config.record_interval
    /\ monitored_table = unique_processes(config.monitored_processes, <<>>)
    /\ running_table = <<>>
    /\ monitoring = FALSE
    /\ monitor_thread = Nil
    /\ db_manager = Nil
    /\ last_record_time = Nil
    /\ ui_pc = "idle"
    /\ join_deadline = 0
    /\ threads = [t \in Tids |-> NoThread]
    /\ stores = <<>>
    /\ save_state = saved(config)
    /\ heap = DefaultHeap
    /\ calls = <<>>

(* a process of the machine starts, or ends *)
ProcessStarts(p) ==
    /\ procs[p] = Nil
    /\ procs' = [procs EXCEPT ![p] = WatchProcNames[p]]
    /\ UNCHANGED <<now, denied, save_state, heap, platform, calls, ui_vars, run_vars, ui_pc,
                   join_deadline, threads, stores>>

ProcessExits(p) ==
    /\ procs[p] # Nil
    /\ procs' = [procs EXCEPT ![p] = Nil]
    /\ UNCHANGED <<now, denied, save_state, heap, platform, calls, ui_vars, run_vars, ui_pc,
                   join_deadline, threads, stores>>

NextWatch ==
    \/ DelayedInit
    \/ \E text \in WatchTextInputs : AddProcess(text)
    \/ \E rows \in SUBSET (1..2) : RemoveSelectedProcess(rows)
    \/ \E selected_rows \in WatchSelections : AddToMonitor(selected_rows)
    \/ RefreshBegin
    \/ RefreshEnd
    \/ \E p \in DOMAIN WatchProcNames : ProcessStarts(p)
    \/ \E p \in DOMAIN WatchProcNames : ProcessExits(p)

SpecWatch == InitWatch /\ [][NextWatch]_vars

(* -------- one session on a machine with several watched processes ----- *)
\* "C", "c", "v": two processes under the name c, one under v
TickProcs == (1 :> <<67>>) @@ (2 :> <<99>>) @@ (3 :> <<118>>)

\* the watch-lists the configuration file may hold: ["c"], ["c", "v"]
TickWatchLists == {<<(<<99>>)>>, <<(<<99>>), (<<118>>)>>}

InitTick ==
    /\ now = 0
    /\ procs = TickProcs
    /\ denied \in SUBSET (DOMAIN TickProcs)
    /\ platform = "linux"
    /\ collector = None
    /\ refresh_timer = FALSE
    /\ config \in [output_dir : {"out"}, record_interval : Intervals,
                   monitored_processes : TickWatchLists]
    /\ output_dir_input = config.output_dir
    /\ interval_spin = config.record_interval
    /\ monitored_table = unique_processes(config.monitored_processes, <<>>)
    /\ running_table = <<>>
    /\ monitoring = FALSE
    /\ monitor_thread = Nil
    /\ db_manager = Nil
    /\ last_record_time = Nil
    /\ ui_pc = "idle"
    /\ join_deadline = 0
    /\ threads = [t \in Tids |-> NoThread]
    /\ stores = <<>>
    /\ save_state = saved(config)
    /\ heap = DefaultHeap
    /\ calls = <<>>

(* the session is started once and left running *)
NextTick ==
    \/ Tick
    \/ DelayedInit
    \/ StartMonitoring
    \/ \E t \in Tids :
           \/ ThreadBegin(t)
           \/ WakeAndCheck(t)
           \/ Resolve(t)
           \/ InsertProcess(t)
           \/ InsertSystem(t)

SpecTick == InitTick /\ [][NextTick]_vars

(* ------------- sessions stopped and started, with fairness ------------ *)
InitStop ==
    /\ InitTick
    /\ denied = {}
    /\ Len(config.monitored_processes) = 1

(* the stop button, pressed while the clock of the model can still run to
   the end of the join *)
StopInTime ==
    /\ now + JoinTimeout * TicksPerSecond <= MaxTime
    /\ StopMonitoring

NextStop ==
    \/ Tick
    \/ DelayedInit
    \/ StartMonitoring
    \/ StopInTime
    \/ JoinReturn
    \/ \E t \in Tids :
           \/ ThreadBegin(t)
           \/ WakeAndCheck(t)
           \/ Resolve(t)
           \/ InsertProcess(t)
           \/ InsertSystem(t)
           \/ TickFault(t)

\* time passes, a thread whose sleep is over runs, and the presentation
\* thread runs when its join can return; a thread inside a tick may stay
\* there for ever
FairStop ==
    /\ WF_vars(Tick)
    /\ WF_vars(JoinReturn)
    /\ WF_vars(\E t \in Tids : WakeAndCheck(t))

SpecStop == InitStop /\ [][NextStop]_vars /\ FairStop

(* ------------------ one session, started and stopped ------------------ *)
\* the start button, pressed when no session has been started before
StartFirstSession ==
    /\ db_manager = Nil
    /\ StartMonitoring

NextOneSession ==
    \/ Tick
    \/ DelayedInit
    \/ StartFirstSession
    \/ StopMonitoring
    \/ JoinReturn
    \/ \E t \in Tids :
           \/ ThreadBegin(t)
           \/ WakeAndCheck(t)
           \/ Resolve(t)
           \/ InsertProcess(t)
           \/ InsertSystem(t)
           \/ TickFault(t)

SpecOneSession == InitTick /\ [][NextOneSession]_vars

(* ------------- a session whose store cannot be created ---------------- *)
NextStartFault ==
    \/ Tick
    \/ DelayedInit
    \/ RefreshBegin
    \/ RefreshEnd
    \/ StartMonitoring
    \/ StartMonitoringRaises
    \/ SlotRaised
    \/ StopInTime
    \/ JoinReturn
    \/ \E t \in Tids :
           \/ ThreadBegin(t)
           \/ WakeAndCheck(t)
           \/ Resolve(t)
           \/ InsertProcess(t)
           \/ InsertSystem(t)

SpecStartFault == InitStop /\ [][NextStartFault]_vars

(* ------------------- the store, called directly ----------------------- *)
HarnessDb == DbPath("out", get_timestamp_string(0))

ProcessInfos == [pid : {1, 2}, name : {<<67>>}, cpu_percent : {0, 1},
                 memory_mb : {1}, extra_metrics : {<<>>}, sampled : {0}]

SystemInfos == [timestamp : 0..MaxStoreTime, cpu_percent : {0, 1},
                extra_metrics : {<<>>}]

(* the state after DatabaseManager(db_path) on a fresh path *)
StoreInit ==
    /\ now = 0
    /\ procs = <<>>
    /\ denied = {}
    /\ platform = "linux"
    /\ collector = None
    /\ refresh_timer = FALSE
    /\ config = [output_dir |-> "out", record_interval |-> 2,
                 monitored_processes |-> <<>>]
    /\ output_dir_input = config.output_dir
    /\ interval_spin = config.record_interval
    /\ monitored_table = unique_processes(config.monitored_processes, <<>>)
    /\ running_table = <<>>
    /\ monitoring = FALSE
    /\ monitor_thread = Nil
    /\ db_manager = HarnessDb
    /\ last_record_time = Nil
    /\ ui_pc = "idle"
    /\ join_deadline = 0
    /\ threads = [t \in Tids |-> NoThread]
    /\ stores = DatabaseManager(<<>>, HarnessDb)
    /\ save_state = saved(config)
    /\ heap = DefaultHeap
    /\ calls = <<>>

StoreTick ==
    /\ now < MaxStoreTime
    /\ now' = now + 1
    /\ UNCHANGED <<procs, denied, save_state, heap, platform, calls, ui_vars, run_vars, ui_pc,
                   join_deadline, threads, stores>>

(* db.insert_process_info(info), at the present instant *)
CallInsertProcess(info) ==
    /\ Len(calls) < MaxWrites
    /\ stores' = [stores EXCEPT ![db_manager] = insert_process_info(
           stores[db_manager], [info EXCEPT !.sampled = now], now, 0)]
    /\ calls' = Append(calls, [op |-> "process", timestamp |-> isoformat(now),
                               key |-> info.pid, cpu_percent |-> info.cpu_percent,
                               extra_metrics |-> info.extra_metrics])
    /\ UNCHANGED <<now, procs, denied, save_state, heap, platform, ui_vars, run_vars, ui_pc,
                   join_deadline, threads>>

(* db.insert_system_info(info): the sample carries its own timestamp *)
CallInsertSystem(info) ==
    /\ Len(calls) < MaxWrites
    /\ stores' = [stores EXCEPT ![db_manager] = insert_system_info(
           stores[db_manager], info, 0)]
    /\ calls' = Append(calls, [op |-> "system",
                               timestamp |-> isoformat(info.timestamp),
                               key |-> 0, cpu_percent |-> info.cpu_percent])
    /\ UNCHANGED <<now, procs, denied, save_state, heap, platform, ui_vars, run_vars, ui_pc,
                   join_deadline, threads>>

StoreNext ==
    \/ StoreTick
    \/ \E info \in ProcessInfos : CallInsertProcess(info)
    \/ \E info \in SystemInfos : CallInsertSystem(info)

SpecStore == StoreInit /\ [][StoreNext]_vars

(* -------------- the store: the connection of an operation ------------ *)
\* An operation of the store is kept as the last entry of calls: where it
\* stands (pc), whether the connection it opened is open (conn) and whether
\* a transaction is pending on it (tx).
OperationDone(c) == c.pc \in {"returned", "handled"}

(* conn = sqlite3.connect(self.db_path); cursor = conn.cursor() *)
Connect(op, info) ==
    /\ Len(calls) < MaxWrites
    /\ calls # <<>> => OperationDone(calls[Len(calls)])
    /\ calls' = Append(calls, [op |-> op, info |-> info, pc |-> "connected",
                               conn |-> "open", tx |-> FALSE])
    /\ UNCHANGED <<now, procs, denied, save_state, heap, platform, ui_vars, run_vars,
                   ui_pc, join_deadline, threads, stores>>

\* the step of the operation in progress from pc to next_pc
ConnStep(pc, next_pc, conn, tx) ==
    /\ calls # <<>>
    /\ calls[Len(calls)].pc = pc
    /\ calls' = [calls EXCEPT ![Len(calls)] =
           [@ EXCEPT !.pc = next_pc, !.conn = conn, !.tx = tx]]
    /\ UNCHANGED <<now, procs, denied, save_state, heap, platform, ui_vars, run_vars,
                   ui_pc, join_deadline, threads>>

(* cursor.execute('INSERT OR REPLACE ...'): the sqlite3 module begins a
   transaction before the statement *)
Execute ==
    /\ ConnStep("connected", "executed", "open", TRUE)
    /\ UNCHANGED stores

(* cursor.execute raises (database locked, disk full): the lines after it
   are not run; the transaction was begun or not *)
ExecuteRaises ==
    /\ \E begun \in BOOLEAN : ConnStep("connected", "raised", "open", begun)
    /\ UNCHANGED stores

(* conn.commit() *)
Commit ==
    /\ ConnStep("executed", "committed", "open", FALSE)
    /\ LET c == calls[Len(calls)]
       IN stores' = [stores EXCEPT ![db_manager] =
              IF c.op = "insert_process_info"
              THEN insert_process_info(@, [c.info EXCEPT !.sampled = now],
                                       now, 0)
              ELSE insert_system_info(@, c.info, 0)]

(* conn.commit() raises: the transaction stays pending *)
CommitRaises ==
    /\ ConnStep("executed", "raised", "open", TRUE)
    /\ UNCHANGED stores

(* conn.close(), the last line of the operation *)
Close ==
    /\ ConnStep("committed", "returned", "closed", FALSE)
    /\ UNCHANGED stores

(* the caller's except block is left, in monitor_loop after
   time.sleep(interval): the traceback that held the operation's frame is
   dropped and with it the connection, which rolls back and closes *)
HandlerEnds ==
    /\ ConnStep("raised", "handled", "closed", FALSE)
    /\ UNCHANGED stores

ConnNext ==
    \/ StoreTick
    \/ \E info \in ProcessInfos : Connect("insert_process_info", info)
    \/ \E info \in SystemInfos : Connect("insert_system_info", info)
    \/ Execute
    \/ ExecuteRaises
    \/ Commit
    \/ CommitRaises
    \/ Close
    \/ HandlerEnds

SpecConn == StoreInit /\ [][ConnNext]_vars

(* ---------------- the store, written and then queried ---------------- *)
\* the dicts a sample may carry: {}, {"a": 1}, {1: 2}
MetricDicts == {<<>>, <<(<<StrKey("a"), 1>>)>>, <<(<<IntKey(1), 2>>)>>}

\* the samples written: pid 0 named "C", pid 1 named "C" or "c"
QueryInfos ==
    {info \in [pid : {0, 1}, name : {<<67>>, <<99>>}, cpu_percent : {0},
               memory_mb : {1}, extra_metrics : MetricDicts, sampled : {0}] :
         info.pid = 0 => info.name = <<67>>}

\* what a column written by another hand may hold: NULL, '', not JSON
ForeignColumns == {NullColumn, EmptyText, NotJson}

(* a row of the processes table that insert_process_info did not write: the
   schema lets extra_metrics be NULL or any text *)
InsertRowDirectly(pid, col) ==
    /\ Len(calls) < MaxQueryWrites
    /\ ~\E r \in stores[db_manager].processes :
           r.timestamp = isoformat(now) /\ r.pid = pid
    /\ LET db == stores[db_manager]
           row == [id |-> db.seq_processes + 1, timestamp |-> isoformat(now),
                   pid |-> pid, name |-> <<67>>, cpu_percent |-> 0,
                   memory_mb |-> 1, extra_metrics |-> col,
                   sampled |-> now, writer |-> -1]
       IN stores' = [stores EXCEPT ![db_manager] =
              [db EXCEPT !.processes = db.processes \cup {row},
                         !.seq_processes = db.seq_processes + 1]]
    /\ calls' = Append(calls, [op |-> "direct", timestamp |-> isoformat(now),
                               key |-> pid])
    /\ UNCHANGED <<now, procs, denied, save_state, heap, platform, ui_vars, run_vars, ui_pc,
                   join_deadline, threads>>

\* the arguments of a query: None or a value
QueryPids == {Nil, <<0>>, <<1>>}
QueryNames == {Nil, <<(<<67>>)>>}
QueryTimes == {Nil, <<isoformat(1)>>}

(* db.get_process_data(pid, name, start_time, end_time) *)
CallGetProcessData(pid, name, start_time, end_time) ==
    /\ calls # <<>>
    /\ calls[Len(calls)].op \notin {"get_process_data", "get_system_data"}
    /\ calls' = Append(calls,
           [op |-> "get_process_data", pid |-> pid, name |-> name,
            start_time |-> start_time, end_time |-> end_time,
            result |-> get_process_data(stores[db_manager], pid, name,
                                        start_time, end_time)])
    /\ UNCHANGED <<now, procs, denied, save_state, heap, platform, ui_vars, run_vars, ui_pc,
                   join_deadline, threads, stores>>

(* db.insert_process_info(info), before the queries *)
QueryInsertProcess(info) ==
    /\ Len(calls) < MaxQueryWrites
    /\ CallInsertProcess(info)

QueryNext ==
    \/ StoreTick
    \/ \E info \in QueryInfos : QueryInsertProcess(info)
    \/ \E col \in ForeignColumns : InsertRowDirectly(0, col)
    \/ \E pid \in QueryPids, name \in QueryNames,
          start_time \in QueryTimes, end_time \in QueryTimes :
           CallGetProcessData(pid, name, start_time, end_time)

SpecQuery == StoreInit /\ [][QueryNext]_vars

(* --------------- the store, with columns that are not JSON ------------ *)
\* the samples written beside the foreign rows
CorruptInfos ==
    {info \in QueryInfos : info.pid = 1 /\ info.name = <<67>>
                               /\ info.extra_metrics # <<(<<IntKey(1), 2>>)>>}

(* a row of the system_info table that insert_system_info did not write *)
InsertSystemRowDirectly(col) ==
    /\ Len(calls) < MaxQueryWrites
    /\ ~\E r \in stores[db_manager].system_info : r.timestamp = isoformat(now)
    /\ LET db == stores[db_manager]
           row == [id |-> db.seq_system_info + 1, timestamp |-> isoformat(now),
                   cpu_percent |-> 0, extra_metrics |-> col,
                   sampled |-> now, writer |-> -1]
       IN stores' = [stores EXCEPT ![db_manager] =
              [db EXCEPT !.system_info = db.system_info \cup {row},
                         !.seq_system_info = db.seq_system_info + 1]]
    /\ calls' = Append(calls, [op |-> "direct", timestamp |-> isoformat(now),
                               key |-> 0])
    /\ UNCHANGED <<now, procs, denied, save_state, heap, platform, ui_vars, run_vars,
                   ui_pc, join_deadline, threads>>

(* db.insert_system_info(info), before the queries *)
CorruptInsertSystem(info) ==
    /\ Len(calls) < MaxQueryWrites
    /\ info.timestamp = now
    /\ CallInsertSystem(info)

(* db.get_system_data(start_time, end_time) *)
CallGetSystemData(start_time, end_time) ==
    /\ calls # <<>>
    /\ calls[Len(calls)].op \notin {"get_process_data", "get_system_data"}
    /\ calls' = Append(calls,
           [op |-> "get_system_data", start_time |-> start_time,
            end_time |-> end_time,
            result |-> get_system_data(stores[db_manager], start_time,
                                       end_time)])
    /\ UNCHANGED <<now, procs, denied, save_state, heap, platform, ui_vars, run_vars,
                   ui_pc, join_deadline, threads, stores>>

CorruptNext ==
    \/ StoreTick
    \/ \E info \in CorruptInfos : QueryInsertProcess(info)
    \/ \E col \in ForeignColumns : InsertRowDirectly(0, col)
    \/ \E info \in SystemInfos : CorruptInsertSystem(info)
    \/ \E col \in ForeignColumns : InsertSystemRowDirectly(col)
    \/ \E pid \in QueryPids, start_time \in QueryTimes :
           CallGetProcessData(pid, Nil, start_time, Nil)
    \/ \E start_time \in QueryTimes, end_time \in QueryTimes :
           CallGetSystemData(start_time, end_time)

SpecCorrupt == StoreInit /\ [][CorruptNext]_vars

(* --------------------- analyzer: sample_data (floats) ------------------ *)
\* A Python float is an IEEE 754 binary64 number.  A positive one is kept
\* here as mant * 2^exp with mant a sequence of bits, least significant
\* first; every operation rounds its exact result to MantissaBits bits,
\* ties to even.
MantissaBits == 53

RECURSIVE bit_length(_)
bit_length(n) == IF n = 0 THEN 0 ELSE 1 + bit_length(n \div 2)

RECURSIVE pow2(_)
pow2(k) == IF k = 0 THEN 1 ELSE 2 * pow2(k - 1)

RECURSIVE int_bits(_)
int_bits(n) == IF n = 0 THEN <<>> ELSE <<n % 2>> \o int_bits(n \div 2)

RECURSIVE bits_int(_)
bits_int(b) == IF b = <<>> THEN 0 ELSE b[1] + 2 * bits_int(Tail(b))

\* bits + 1
increment(b) ==
    LET zeros == {k \in 1..Len(b) : b[k] = 0}
        low == IF zeros = {} THEN Len(b) + 1
               ELSE CHOOSE k \in zeros : \A j \in zeros : k <= j
    IN [k \in 1..(IF zeros = {} THEN Len(b) + 1 ELSE Len(b)) |->
           IF k < low THEN 0 ELSE IF k = low THEN 1 ELSE b[k]]

\* the exact value bits * 2^exp (plus something smaller than its last bit
\* when inexact) rounded to the nearest float, ties to even
round_to_double(bits, exp, inexact) ==
    LET n == Len(bits)
        d == n - MantissaBits
    IN IF d <= 0 THEN [mant |-> bits, exp |-> exp]
       ELSE LET kept == SubSeq(bits, d + 1, n)
                sticky == inexact \/ \E k \in 1..(d - 1) : bits[k] = 1
                up == bits[d] = 1 /\ (sticky \/ kept[1] = 1)
            IN [mant |-> IF up THEN increment(kept) ELSE kept,
                exp |-> exp + d]

\* what is left of r / b after k bits behind the binary point
RECURSIVE rem_after(_, _, _)
rem_after(r, b, k) == IF k = 0 THEN r ELSE (2 * rem_after(r, b, k - 1)) % b

\* the first k bits of r / b behind the binary point, the last one first
fraction_bits(r, b, k) ==
    [n \in 1..k |-> (2 * rem_after(r, b, k - n)) \div b]

\* a / b for ints a >= b >= 1: one bit more than a float holds, then rounded
float_truediv(a, b) ==
    LET q == a \div b
        k == MantissaBits + 1 - bit_length(q)
    IN round_to_double(fraction_bits(a % b, b, k) \o int_bits(q), 0 - k,
                       rem_after(a % b, b, k) # 0)

\* the carry into bit n of bits * i
RECURSIVE carry_into(_, _, _)
carry_into(b, i, n) ==
    IF n = 1 THEN 0 ELSE (b[n - 1] * i + carry_into(b, i, n - 1)) \div 2

\* bits * i for a small int i
mul_bits(b, i) ==
    [n \in 1..Len(b) |-> (b[n] * i + carry_into(b, i, n)) % 2]
        \o int_bits(carry_into(b, i, Len(b) + 1))

\* i * x for an int i >= 0 and a float x
float_mul(i, x) ==
    IF i = 0 THEN [mant |-> <<>>, exp |-> 0]
    ELSE round_to_double(mul_bits(x.mant, i), x.exp, FALSE)

\* int(x): the fraction is cut off
float_to_int(x) ==
    IF x.exp >= 0 THEN bits_int(x.mant) * pow2(x.exp)
    ELSE bits_int(SubSeq(x.mant, 1 - x.exp, Len(x.mant)))

\* indices = [int(i * step) for i in range(max_points)]
sample_indices(length, max_points) ==
    LET step == float_truediv(length, max_points)
    IN [k \in 1..max_points |-> float_to_int(float_mul(k - 1, step))]

\* step = len(data) // max_points: the stride cut to a whole number
sample_data_whole_step(data, max_points) ==
    IF Len(data) <= max_points THEN data
    ELSE LET step == Len(data) \div max_points
         IN [k \in 1..max_points |-> data[(k - 1) * step + 1]]

(* AnalyzerWindow.sample_data(data, max_points) *)
sample_data(data, max_points) ==
    IF Len(data) <= max_points THEN data
    ELSE LET indices == sample_indices(Len(data), max_points)
         IN [k \in 1..max_points |-> data[indices[k] + 1]]

\* the series handed to sample_data: point k of a query result, here its
\* position in the result (0-based)
MaxSeries == 30
MaxPoints == 24
DefaultMaxPoints == 1000
LongSeries == 1005
series(length) == [k \in 1..length |-> k - 1]
SampleInputs ==
    ((0..MaxSeries) \X (1..MaxPoints)) \cup {<<LongSeries, DefaultMaxPoints>>}

(* self.sample_data(data, max_points), once for a loaded series *)
CallSampleData(length, max_points) ==
    /\ calls = <<>>
    /\ calls' = Append(calls,
           [op |-> "sample_data", data |-> series(length),
            max_points |-> max_points,
            result |-> sample_data(series(length), max_points)])
    /\ UNCHANGED <<now, procs, denied, save_state, heap, platform, ui_vars, run_vars, ui_pc,
                   join_deadline, threads, stores>>

SampleNext ==
    \E input \in SampleInputs : CallSampleData(input[1], input[2])

SpecSample == StoreInit /\ [][SampleNext]_vars

(* ------------------ analyzer: the charts and the analysis ------------- *)
\* cpu_percent and memory_mb are kept in thousandths; an instant is kept
\* in ticks, TicksPerSecond of them to the second
MaxAnalysed == 3
Readings == {0, 1004, 2496}

(* datetime.fromisoformat(text): the seconds and, when the text has them,
   the fraction *)
fromisoformat(text) ==
    text[1] * TicksPerSecond + (IF Len(text) > 1 THEN text[2] ELSE 0)

(* [(datetime.fromisoformat(d['timestamp']) - start_dt).total_seconds()
    for d in data], start_dt being the first row's instant *)
relative_times(data) ==
    LET start_dt == fromisoformat(data[1].timestamp)
    IN [k \in 1..Len(data) |-> fromisoformat(data[k].timestamp) - start_dt]

\* the system axis counted from the first sample of the process series
update_charts_one_origin(current) ==
    LET process_data == sample_data(current.process, DefaultMaxPoints)
        system_data == sample_data(current.system, DefaultMaxPoints)
        start_dt == fromisoformat(process_data[1].timestamp)
    IN [timestamps |-> IF process_data # <<>>
                       THEN relative_times(process_data) ELSE <<>>,
        cpu_values |-> [k \in 1..Len(process_data) |->
                           process_data[k].cpu_percent],
        sys_timestamps |->
            [k \in 1..Len(system_data) |->
                fromisoformat(system_data[k].timestamp) - start_dt],
        sys_cpu_values |-> [k \in 1..Len(system_data) |->
                               system_data[k].cpu_percent]]

(* AnalyzerWindow.update_charts: what is plotted, the x and y values of the
   process charts and of the system charts *)
update_charts(current) ==
    LET process_data == sample_data(current.process, DefaultMaxPoints)
        system_data == sample_data(current.system, DefaultMaxPoints)
    IN [timestamps |-> IF process_data # <<>>
                       THEN relative_times(process_data) ELSE <<>>,
        cpu_values |-> [k \in 1..Len(process_data) |->
                           process_data[k].cpu_percent],
        sys_timestamps |-> IF system_data # <<>>
                           THEN relative_times(system_data) ELSE <<>>,
        sys_cpu_values |-> [k \in 1..Len(system_data) |->
                               system_data[k].cpu_percent]]

\* the sum of values[lo..hi], by halves
RECURSIVE sum_between(_, _, _)
sum_between(values, lo, hi) ==
    IF lo > hi THEN 0
    ELSE IF lo = hi THEN values[lo]
    ELSE LET mid == (lo + hi) \div 2
         IN sum_between(values, lo, mid) + sum_between(values, mid + 1, hi)

(* f"{x:.2f}" of x = num / den thousandths: the nearest hundredth, the
   even one of two equally near *)
format_2f(num, den) ==
    LET q == num \div (10 * den)
        r == num % (10 * den)
    IN IF 2 * r > 10 * den \/ (2 * r = 10 * den /\ q % 2 = 1)
       THEN q + 1 ELSE q

(* np.mean, np.max and np.min of a list, as update_analysis prints them *)
summary(values) ==
    [mean |-> format_2f(sum_between(values, 1, Len(values)), Len(values)),
     max |-> format_2f(CHOOSE m \in Range(values) :
                           \A v \in Range(values) : v <= m, 1),
     min |-> format_2f(CHOOSE m \in Range(values) :
                           \A v \in Range(values) : m <= v, 1)]

\* the statistics of the series that is plotted
update_analysis_sampled(current) ==
    LET process_data == sample_data(current.process, DefaultMaxPoints)
    IN [count |-> Len(process_data),
        cpu |-> summary([k \in 1..Len(process_data) |->
                            process_data[k].cpu_percent]),
        memory |-> summary([k \in 1..Len(process_data) |->
                               process_data[k].memory_mb])]

(* AnalyzerWindow.update_analysis: the text of the analysis label *)
update_analysis(current) ==
    LET process_data == current.process
    IN [count |-> Len(process_data),
        cpu |-> summary([k \in 1..Len(process_data) |->
                            process_data[k].cpu_percent]),
        memory |-> summary([k \in 1..Len(process_data) |->
                               process_data[k].memory_mb])]

\* the rows of pid 1 written at the instants ts, in that order, with the
\* readings vs
process_rows(ts, vs) ==
    {[id |-> k, timestamp |-> isoformat(ts[k]), pid |-> 1, name |-> <<67>>,
      cpu_percent |-> vs[k], memory_mb |-> 2496 - vs[k],
      extra_metrics |-> json_dumps(<<>>), sampled |-> ts[k], writer |-> 0] :
         k \in 1..Len(ts)}

system_rows(ts) ==
    {[id |-> k, timestamp |-> isoformat(ts[k]), cpu_percent |-> 1004,
      extra_metrics |-> json_dumps(<<>>), sampled |-> ts[k], writer |-> 0] :
         k \in 1..Len(ts)}

\* the instants of the system rows: none, one, two written out of order
SystemTimes == {<<>>, <<0>>, <<2, 1>>}

\* the session stores opened in the analyzer
AnalysedStores ==
    {[processes |-> process_rows(ts, vs), system_info |-> system_rows(sys),
      seq_processes |-> Len(ts), seq_system_info |-> Len(sys)] :
         ts \in UNION {{f \in [1..n -> 0..MaxStoreTime] :
                            \A i, j \in 1..n : i # j => f[i] # f[j]} :
                        n \in 1..MaxAnalysed},
         vs \in [1..MaxAnalysed -> Readings],
         sys \in SystemTimes}

\* a series longer than the point budget: one row a tick, one reading that
\* stands out at place j
long_series(j) ==
    [k \in 1..LongSeries |->
        [id |-> k, timestamp |-> isoformat(k - 1), pid |-> 1, name |-> <<67>>,
         cpu_percent |-> IF k = j THEN 2496 ELSE 1004,
         memory_mb |-> IF k = j THEN 0 ELSE 1004,
         extra_metrics |-> read_extra_metrics(json_dumps(<<>>)),
         sampled |-> k - 1, writer |-> 0]]

\* the places sample_data leaves out of a long series, the first and the last
SpikePlaces ==
    LET kept == Range(sample_indices(LongSeries, DefaultMaxPoints))
    IN {1, LongSeries} \cup {k \in 1..LongSeries : k - 1 \notin kept}

(* db_manager.get_process_data(pid=pid) and db_manager.get_system_data() *)
LoadedData ==
    {<<get_process_data(db, <<1>>, Nil, Nil, Nil),
       get_system_data(db, Nil, Nil)>> : db \in AnalysedStores}
    \cup {<<long_series(j), <<>> >> : j \in SpikePlaces}

(* AnalyzerWindow.load_process_data: nothing is shown for a process without
   rows; otherwise current_process_data is set, update_charts and
   update_analysis run *)
LoadProcessData(process_data, system_data) ==
    /\ calls = <<>>
    /\ process_data # <<>>
    /\ LET current == [process |-> process_data, system |-> system_data]
       IN calls' = <<[op |-> "load_process_data",
                      process |-> process_data, system |-> system_data,
                      charts |-> update_charts(current),
                      analysis |-> update_analysis(current)]>>
    /\ UNCHANGED <<now, procs, denied, save_state, heap, platform, ui_vars, run_vars,
                   ui_pc, join_deadline, threads, stores>>

(* the entries of the viewer's tree: for each name of get_all_process_names
   the pids of get_all_pids(name) *)
tree_entries(db) == {<<r.name, r.pid>> : r \in db.processes}

(* AnalyzerWindow.on_tree_item_clicked on the entry (name, pid), which
   calls load_process_data(db_path, name, pid): the series is
   get_process_data(pid=pid) *)
OnTreeItemClicked(name, pid) ==
    /\ calls # <<>>
    /\ calls[Len(calls)].op # "load_process_data"
    /\ <<name, pid>> \in tree_entries(stores[db_manager])
    /\ LET process_data == get_process_data(stores[db_manager], <<pid>>,
                                            Nil, Nil, Nil)
           current == [process |-> process_data,
                       system |-> get_system_data(stores[db_manager],
                                                  Nil, Nil)]
       IN calls' = Append(calls,
              [op |-> "load_process_data", name |-> name, pid |-> pid,
               process |-> current.process, system |-> current.system,
               charts |-> update_charts(current),
               analysis |-> update_analysis(current)])
    /\ UNCHANGED <<now, procs, denied, save_state, heap, platform, ui_vars,
                   run_vars, ui_pc, join_deadline, threads, stores>>

ViewerNext ==
    \/ StoreTick
    \/ \E info \in QueryInfos : QueryInsertProcess(info)
    \/ \E name \in {<<67>>, <<99>>}, pid \in {0, 1} :
           OnTreeItemClicked(name, pid)

SpecViewer == StoreInit /\ [][ViewerNext]_vars

AnalyzerNext ==
    \E loaded \in LoadedData : LoadProcessData(loaded[1], loaded[2])

SpecAnalyzer == StoreInit /\ [][AnalyzerNext]_vars

(* --------------- a caller of ConfigManager, step by step -------------- *)
\* ConfigManager.DEFAULT_CONFIG, the keys the monitor window uses
DEFAULT_CONFIG == [output_dir |-> "D:\\system_performance_record",
                   record_interval |-> 5, monitored_processes |-> <<>>]

\* the documents a caller may hold in memory or find on disk
SaveDocs == [output_dir : {"out"}, record_interval : Intervals,
             monitored_processes : {<<>>, <<(<<67>>)>>}]

InitSave ==
    /\ now = 0
    /\ procs = <<>>
    /\ denied = {}
    /\ platform = "linux"
    /\ collector = None
    /\ refresh_timer = FALSE
    /\ config \in SaveDocs
    /\ output_dir_input = config.output_dir
    /\ interval_spin = config.record_interval
    /\ monitored_table = unique_processes(config.monitored_processes, <<>>)
    /\ running_table = <<>>
    /\ monitoring = FALSE
    /\ monitor_thread = Nil
    /\ db_manager = Nil
    /\ last_record_time = Nil
    /\ ui_pc = "idle"
    /\ join_deadline = 0
    /\ threads = [t \in Tids |-> NoThread]
    /\ stores = <<>>
    /\ save_state = saved(config)
    /\ heap = DefaultHeap
    /\ calls = <<>>

SaveStep(pc, next_pc, target, temp) ==
    /\ save_state.pc = pc
    /\ save_state' = [save_state EXCEPT !.pc = next_pc, !.target = target,
                                        !.temp = temp]

SaveOnly == UNCHANGED <<now, procs, denied, heap, platform, calls, ui_vars, run_vars,
                        ui_pc, join_deadline, threads, stores>>

(* ConfigManager.set(key, value) between two saves *)
SetConfig(doc) ==
    /\ save_state.pc = "idle"
    /\ config' = doc
    /\ UNCHANGED <<now, env_vars, collector, refresh_timer, output_dir_input,
                   interval_spin, monitored_table, running_table, run_vars,
                   ui_pc, join_deadline, threads, stores>>

(* save_config is called: the parent directory exists, temp_path is named *)
SaveBegin ==
    /\ save_state.pc = "idle"
    /\ save_state' = [save_state EXCEPT !.pc = "open", !.caller = "set",
                                        !.previous = save_state.target,
                                        !.raised = FALSE]
    /\ SaveOnly

(* open(temp_path, 'w') creates the file or cuts it to nothing *)
OpenTemp ==
    /\ SaveStep("open", "dump", save_state.target, Empty)
    /\ SaveOnly

(* json.dump(self.config, f): the text reaches the file piece by piece *)
DumpSome ==
    /\ SaveStep("dump", "close", save_state.target, Partial(config))
    /\ SaveOnly

(* the end of the with block: the rest is written and the file closed *)
CloseTemp ==
    /\ SaveStep("close", "exists", save_state.target, Complete(config))
    /\ SaveOnly

(* if self.config_path.exists() *)
CheckExists ==
    /\ SaveStep("exists",
                IF save_state.target # Missing THEN "unlink" ELSE "move",
                save_state.target, save_state.temp)
    /\ SaveOnly

(* self.config_path.unlink() *)
Unlink ==
    /\ SaveStep("unlink", "move", Missing, save_state.temp)
    /\ SaveOnly

(* shutil.move(temp_path, self.config_path): a rename *)
Move ==
    /\ SaveStep("move", "idle", save_state.temp, Missing)
    /\ SaveOnly

(* the process is killed, or the machine stops, in the middle of a save *)
Crash ==
    /\ save_state.pc \notin {"idle", "off", "crashed"}
    /\ save_state' = [save_state EXCEPT !.pc = "crashed"]
    /\ SaveOnly

\* load_config on a missing file without the save_config of line 53
Restart_in_memory ==
    /\ save_state.pc \in {"crashed", "off"}
    /\ IF save_state.target # Missing
       THEN /\ config' = save_state.target.doc[1]
            /\ save_state' = [save_state EXCEPT !.pc = "idle", !.caller = "",
                                                !.raised = FALSE]
       ELSE /\ config' = DEFAULT_CONFIG
            /\ save_state' = [save_state EXCEPT !.pc = "idle", !.caller = "init",
                                                !.previous = Missing,
                                                !.raised = FALSE]
    /\ UNCHANGED <<now, procs, denied, heap, platform, calls, collector, refresh_timer,
                   output_dir_input, interval_spin, monitored_table,
                   running_table, run_vars, ui_pc, join_deadline, threads,
                   stores>>

(* the next start: ConfigManager.__init__ and load_config; a missing file
   makes load_config call save_config with the defaults *)
Restart ==
    /\ save_state.pc \in {"crashed", "off"}
    /\ IF save_state.target # Missing
       THEN /\ config' = save_state.target.doc[1]
            /\ save_state' = [save_state EXCEPT !.pc = "idle", !.caller = "",
                                                !.raised = FALSE]
       ELSE /\ config' = DEFAULT_CONFIG
            /\ save_state' = [save_state EXCEPT !.pc = "open", !.caller = "init",
                                                !.previous = Missing,
                                                !.raised = FALSE]
    /\ UNCHANGED <<now, procs, denied, heap, platform, calls, collector, refresh_timer,
                   output_dir_input, interval_spin, monitored_table,
                   running_table, run_vars, ui_pc, join_deadline, threads,
                   stores>>

(* a file operation of save_config raises: except Exception, print, return *)
SaveFails ==
    /\ save_state.pc \in {"open", "dump", "close", "unlink", "move"}
    /\ save_state' = [save_state EXCEPT !.pc = "idle", !.raised = TRUE]
    /\ SaveOnly

(* the program is closed between two saves *)
Quit ==
    /\ save_state.pc = "idle"
    /\ save_state' = [save_state EXCEPT !.pc = "off"]
    /\ SaveOnly

(* the configuration file is deleted while the program is not running *)
RemoveFile ==
    /\ save_state.pc = "off"
    /\ save_state.target # Missing
    /\ save_state' = [save_state EXCEPT !.target = Missing]
    /\ SaveOnly

SaveNext ==
    \/ \E doc \in SaveDocs : SetConfig(doc)
    \/ SaveBegin
    \/ OpenTemp
    \/ DumpSome
    \/ CloseTemp
    \/ CheckExists
    \/ Unlink
    \/ Move
    \/ Crash
    \/ Restart
    \/ SaveFails
    \/ Quit
    \/ RemoveFile

SpecSave == InitSave /\ [][SaveNext]_vars

(* ------------------ ConfigManager: nested documents ------------------- *)
\* A string is a sequence of dot-free pieces and dots; a JSON value is a
\* scalar or list (its text) or an object (its members, in order).

\* key in d, d[key], d[key] = value
has_key(items, key) == \E k \in 1..Len(items) : items[k][1] = key
lookup(items, key) ==
    items[CHOOSE k \in 1..Len(items) : items[k][1] = key][2]
assign(items, key, value) ==
    IF has_key(items, key)
    THEN [k \in 1..Len(items) |->
             IF items[k][1] = key THEN <<key, value>> ELSE items[k]]
    ELSE Append(items, <<key, value>>)

\* ConfigManager.DEFAULT_CONFIG with its nesting
DefaultConfig ==
    << <<(<<"output_dir">>), Leaf("D:\\system_performance_record")>>,
       <<(<<"record_interval">>), Leaf("5")>>,
       <<(<<"monitored_processes">>), Leaf("[]")>>,
       <<(<<"monitor_by_pid">>), Dict(<<>>)>>,
       <<(<<"ui">>), Dict(<< <<(<<"window_width">>), Leaf("1200")>>,
                             <<(<<"window_height">>), Leaf("800")>> >>)>> >>

\* result.update(current): no descent into nested objects
RECURSIVE merge_dict_update(_, _)
merge_dict_update(result, current) ==
    IF current = <<>> THEN result
    ELSE merge_dict_update(assign(result, current[1][1], current[1][2]),
                           Tail(current))

(* merge_dict of _merge_defaults: result starts as default.copy(), then the
   loop over current.items() *)
RECURSIVE merge_dict(_, _)
merge_dict(result, current) ==
    IF current = <<>> THEN result
    ELSE LET key == current[1][1]
             value == current[1][2]
             both == /\ has_key(result, key)
                     /\ lookup(result, key).t = "dict"
                     /\ value.t = "dict"
         IN merge_dict(
                assign(result, key,
                       IF both
                       THEN Dict(merge_dict(lookup(result, key).items, value.items))
                       ELSE value),
                Tail(current))

\* key.split('.')
RECURSIVE split(_)
split(key) ==
    IF \A k \in 1..Len(key) : key[k] # Dot THEN <<key>>
    ELSE LET i == CHOOSE k \in 1..Len(key) :
                      key[k] = Dot /\ \A j \in 1..(k - 1) : key[j] # Dot
         IN <<SubSeq(key, 1, i - 1)>> \o split(SubSeq(key, i + 1, Len(key)))

\* an exception leaving ConfigManager.get
Raised == [t |-> "raise", leaf |-> "TypeError", items |-> <<>>]

\* the loop of get without isinstance(value, dict)
RECURSIVE get_loop_unguarded(_, _, _)
get_loop_unguarded(value, keys, default) ==
    IF keys = <<>> THEN value
    ELSE IF value.t # "dict" THEN Raised
    ELSE IF has_key(value.items, keys[1])
    THEN get_loop_unguarded(lookup(value.items, keys[1]), Tail(keys), default)
    ELSE default

\* for k in keys: descend or return default
RECURSIVE get_loop(_, _, _)
get_loop(value, keys, default) ==
    IF keys = <<>> THEN value
    ELSE IF value.t = "dict" /\ has_key(value.items, keys[1])
    THEN get_loop(lookup(value.items, keys[1]), Tail(keys), default)
    ELSE default

(* ConfigManager.get(key, default) on self.config *)
get(config_items, key, default) ==
    get_loop(Dict(config_items), split(key), default)

\* the documents json.load may return: an object with some of these keys,
\* each a scalar or an object with some of the nested keys
NestedKeys == << <<"window_width">>, <<"y">> >>
TopKeys == << <<"record_interval">>, <<"ui">>, <<"x">> >>

RECURSIVE chosen_items(_, _, _)
chosen_items(keys, choice, k) ==
    IF k > Len(keys) THEN <<>>
    ELSE (IF choice[k] = Nil THEN <<>> ELSE << <<keys[k], choice[k][1]>> >>)
             \o chosen_items(keys, choice, k + 1)

NestedDocs ==
    {chosen_items(NestedKeys, c, 1) :
        c \in [1..Len(NestedKeys) -> {Nil, <<Leaf("7")>>}]}
Documents ==
    {chosen_items(TopKeys, c, 1) :
        c \in [1..Len(TopKeys) ->
                  {Nil, <<Leaf("7")>>} \cup {<<Dict(d)>> : d \in NestedDocs}]}

(* load_config: json.load, then _merge_defaults *)
CallMergeDefaults(document) ==
    /\ calls = <<>>
    /\ calls' = Append(calls,
           [op |-> "_merge_defaults", document |-> document,
            config |-> merge_dict(DefaultConfig, document)])
    /\ UNCHANGED <<now, procs, denied, save_state, heap, platform, ui_vars, run_vars,
                   ui_pc, join_deadline, threads, stores>>

\* the dotted keys a caller may ask for, and the defaults it may pass
GetKeys ==
    {<<"ui">>, <<"x">>, <<"nope">>, <<>>,
     <<"ui", Dot, "window_width">>, <<"ui", Dot, "window_height">>,
     <<"ui", Dot, "y">>, <<"ui", Dot>>,
     <<"record_interval", Dot, "x">>, <<"x", Dot, "y">>,
     <<"ui", Dot, "window_width", Dot, "y">>}
GetDefaults == {Leaf("None"), Leaf("0")}

(* config_manager.get(key, default) after the load *)
CallGet(key, default) ==
    /\ Len(calls) = 1
    /\ calls[1].op = "_merge_defaults"
    /\ calls' = Append(calls,
           [op |-> "get", key |-> key, default |-> default,
            result |-> get(calls[1].config, key, default)])
    /\ UNCHANGED <<now, procs, denied, save_state, heap, platform, ui_vars, run_vars,
                   ui_pc, join_deadline, threads, stores>>

ConfigNext ==
    \/ \E document \in Documents : CallMergeDefaults(document)
    \/ \E key \in GetKeys, default \in GetDefaults : CallGet(key, default)

SpecConfig == StoreInit /\ [][ConfigNext]_vars

(* ---------- configuration: the dict objects and their sharing --------- *)
MaxObjects == 9
MaxSets == 2

\* the value a scalar or a reference stands for, the dicts followed
RECURSIVE deep(_, _)
deep(h, value) ==
    IF value.t # "ref" THEN value
    ELSE LET items == h[value.items[1]]
         IN Dict([k \in 1..Len(items) |->
                     <<items[k][1], deep(h, items[k][2])>>])

(* d.copy(): a new dict with the items of d; a nested dict is shared *)
copy(h, address) == [heap |-> Append(h, h[address]), ref |-> Len(h) + 1]

(* json.load(f): new objects for the document and for the dicts in it *)
RECURSIVE load_items(_, _)
load_items(h, items) ==
    IF items = <<>> THEN [heap |-> h, items |-> <<>>]
    ELSE LET key == items[1][1]
             value == items[1][2]
             sub == load_items(h, value.items)
             first == IF value.t = "dict"
                      THEN [heap |-> Append(sub.heap, sub.items),
                            value |-> Ref(Len(sub.heap) + 1)]
                      ELSE [heap |-> h, value |-> value]
             rest == load_items(first.heap, Tail(items))
         IN [heap |-> rest.heap,
             items |-> << <<key, first.value>> >> \o rest.items]

json_load(h, document) ==
    LET r == load_items(h, document)
    IN [heap |-> Append(r.heap, r.items), ref |-> Len(r.heap) + 1]

(* merge_dict(default, current) on objects: result = default.copy(), then
   for each item of current either the merge of the two dicts or the value
   of current itself *)
RECURSIVE merge_objects(_, _, _)
RECURSIVE merge_items(_, _, _)
merge_items(h, result, current) ==
    IF current = <<>> THEN [heap |-> h, items |-> result]
    ELSE LET key == current[1][1]
             value == current[1][2]
             both == /\ has_key(result, key)
                     /\ lookup(result, key).t = "ref"
                     /\ value.t = "ref"
             sub == merge_objects(h, lookup(result, key).items[1],
                                  value.items[1])
         IN IF both
            THEN merge_items(sub.heap, assign(result, key, Ref(sub.ref)),
                             Tail(current))
            ELSE merge_items(h, assign(result, key, value), Tail(current))

merge_objects(h, default, current) ==
    LET r == merge_items(h, h[default], h[current])
    IN [heap |-> Append(r.heap, r.items), ref |-> Len(r.heap) + 1]

(* ConfigManager.load_config: the object self.config is bound to.  A file
   that json.load reads is merged against DEFAULT_CONFIG; a missing file,
   or one json.load rejects, gives DEFAULT_CONFIG.copy() *)
load_config(h, file) ==
    IF file.state = "complete"
    THEN LET document == json_load(h, file.doc[1])
         IN merge_objects(document.heap, 1, document.ref)
    ELSE copy(h, 1)

(* the loop and the last line of ConfigManager.set.  `k not in config` and
   `config[k] = ...` raise TypeError when config is not a dict; what was
   assigned before the raise stays *)
RECURSIVE set_loop(_, _, _, _)
set_loop(h, config_value, keys, value) ==
    IF config_value.t # "ref" THEN [heap |-> h, raised |-> TRUE]
    ELSE LET a == config_value.items[1]
             new == Len(h) + 1
         IN IF Len(keys) = 1
            THEN [heap |-> [h EXCEPT ![a] = assign(@, keys[1], value)],
                  raised |-> FALSE]
            ELSE IF ~has_key(h[a], keys[1])
            THEN set_loop(Append([h EXCEPT ![a] =
                                     assign(@, keys[1], Ref(new))], <<>>),
                          Ref(new), Tail(keys), value)
            ELSE set_loop(h, lookup(h[a], keys[1]), Tail(keys), value)

(* ConfigManager.set(key, value) *)
set(h, address, key, value) == set_loop(h, Ref(address), split(key), value)

\* the documents a configuration file may hold
HeapDocuments ==
    {<<>>,
     << <<(<<"record_interval">>), Leaf("7")>> >>,
     << <<(<<"ui">>), Dict(<< <<(<<"window_width">>), Leaf("7")>> >>)>> >>,
     << <<(<<"x">>), Dict(<<>>)>> >>}

\* the file at the configuration path: absent, cut short, or a document
HeapFiles == {Missing, Partial(<<>>)} \cup {Complete(d) : d \in HeapDocuments}

\* the dotted keys set is called with
SetKeys ==
    {<<"record_interval">>, <<"ui", Dot, "window_width">>,
     <<"ui", Dot, "y">>, <<"x", Dot, "y">>, <<"monitor_by_pid", Dot, "p">>,
     <<"record_interval", Dot, "x">>, <<"ui", Dot, "window_width", Dot, "y">>}

(* the process starts: no ConfigManager yet, the class attribute as written *)
InitHeap ==
    /\ now = 0
    /\ procs = <<>>
    /\ denied = {}
    /\ platform = "linux"
    /\ collector = None
    /\ refresh_timer = FALSE
    /\ config = Nil
    /\ output_dir_input = ""
    /\ interval_spin = 1
    /\ monitored_table = <<>>
    /\ running_table = <<>>
    /\ monitoring = FALSE
    /\ monitor_thread = Nil
    /\ db_manager = Nil
    /\ last_record_time = Nil
    /\ ui_pc = "idle"
    /\ join_deadline = 0
    /\ threads = [t \in Tids |-> NoThread]
    /\ stores = <<>>
    /\ save_state = [saved(<<>>) EXCEPT !.target = Missing]
    /\ heap = DefaultHeap
    /\ calls = <<>>

HeapOnly == UNCHANGED <<now, procs, denied, platform, collector, refresh_timer,
                        output_dir_input, interval_spin, monitored_table,
                        running_table, run_vars, ui_pc, join_deadline,
                        threads, stores>>

(* ConfigManager(config_path) with `file` at the path: load_config, and
   save_config when the file could not be read.  Here config is the address
   of the dict self.config is bound to. *)
Construct(file) ==
    /\ Len(heap) + 4 <= MaxObjects
    /\ LET loaded == load_config(heap, file)
       IN /\ heap' = loaded.heap
          /\ config' = <<loaded.ref>>
          /\ save_state' = saved(IF file.state = "complete" THEN file.doc[1]
                                 ELSE deep(loaded.heap, Ref(loaded.ref)).items)
    /\ UNCHANGED calls
    /\ HeapOnly

(* config_manager.set(key, value), then get(key) *)
CallSet(key, value) ==
    /\ config # Nil
    /\ Len(calls) < MaxSets
    /\ Len(heap) + 2 <= MaxObjects
    /\ LET r == set(heap, config[1], key, value)
           after == deep(r.heap, Ref(config[1]))
       IN /\ heap' = r.heap
          /\ calls' = Append(calls,
                 [op |-> "set", key |-> key, value |-> value,
                  raised |-> r.raised,
                  before |-> deep(heap, Ref(config[1])),
                  after |-> after,
                  result |-> get(after.items, key, Leaf("None"))])
    /\ UNCHANGED <<config, save_state>>
    /\ HeapOnly

(* config_manager.save_config() *)
CallSaveConfig ==
    /\ config # Nil
    /\ save_state' = saved(deep(heap, Ref(config[1])).items)
    /\ UNCHANGED <<heap, config, calls>>
    /\ HeapOnly

(* the program is started again and finds the file as it was last saved *)
ConstructAgain ==
    /\ config # Nil
    /\ Construct(save_state.target)

HeapNext ==
    \/ \E file \in HeapFiles : Construct(file)
    \/ ConstructAgain
    \/ \E key \in SetKeys : CallSet(key, Leaf("7"))
    \/ CallSaveConfig

SpecHeap == InitHeap /\ [][HeapNext]_vars

(* ------------------- the window is built: load_config ----------------- *)
\* the monitored_processes lists a configuration file may hold
MaxStoredNames == 4
StoredNames == {<<67>>, <<99>>, <<118>>}
StoredLists ==
    UNION {[1..n -> StoredNames] : n \in 0..MaxStoredNames}

(* MonitorWindow.load_config on a ConfigManager that has read the file *)
LoadConfig(document) ==
    /\ config' = document
    /\ output_dir_input' = document.output_dir
    /\ interval_spin' = document.record_interval
    /\ monitored_table' = unique_processes(document.monitored_processes, <<>>)
    /\ save_state' = saved(document)
    /\ UNCHANGED <<now, procs, denied, heap, platform, calls, collector, refresh_timer,
                   running_table, run_vars, ui_pc, join_deadline, threads,
                   stores>>

LoadNext ==
    \E list \in StoredLists :
        LoadConfig([output_dir |-> "out", record_interval |-> 2,
                    monitored_processes |-> list])

SpecLoad == StoreInit /\ [][LoadNext]_vars

(* ------------------ the monitor on every kind of host ----------------- *)
\* platform.system().lower() of the host; both collectors are used through
\* the BaseCollector interface
HostPlatforms == {"windows", "linux", "darwin"}

InitHost ==
    /\ now = 0
    /\ procs = (1 :> <<67>>)
    /\ denied = {}
    /\ platform \in HostPlatforms
    /\ collector = None
    /\ refresh_timer = FALSE
    /\ config = [output_dir |-> "out", record_interval |-> 2,
                 monitored_processes |-> <<>>]
    /\ output_dir_input = config.output_dir
    /\ interval_spin = config.record_interval
    /\ monitored_table = unique_processes(config.monitored_processes, <<>>)
    /\ running_table = <<>>
    /\ monitoring = FALSE
    /\ monitor_thread = Nil
    /\ db_manager = Nil
    /\ last_record_time = Nil
    /\ ui_pc = "idle"
    /\ join_deadline = 0
    /\ threads = [t \in Tids |-> NoThread]
    /\ stores = <<>>
    /\ save_state = saved(config)
    /\ heap = DefaultHeap
    /\ calls = <<>>

SpecHost == InitHost /\ [][Next]_vars

(* --------- one session, with processes starting while it runs --------- *)
\* the process table when the window opens: empty, or "C" alone
FreshProcs == {[p \in DOMAIN TickProcs |-> Nil],
               [p \in DOMAIN TickProcs |-> IF p = 1 THEN TickProcs[p] ELSE Nil]}

InitFresh ==
    /\ now = 0
    /\ procs \in FreshProcs
    /\ denied \in {{}, {2}, {3}}
    /\ platform = "linux"
    /\ collector = None
    /\ refresh_timer = FALSE
    /\ config \in [output_dir : {"out"}, record_interval : {2},
                   monitored_processes : TickWatchLists]
    /\ output_dir_input = config.output_dir
    /\ interval_spin = config.record_interval
    /\ monitored_table = unique_processes(config.monitored_processes, <<>>)
    /\ running_table = <<>>
    /\ monitoring = FALSE
    /\ monitor_thread = Nil
    /\ db_manager = Nil
    /\ last_record_time = Nil
    /\ ui_pc = "idle"
    /\ join_deadline = 0
    /\ threads = [t \in Tids |-> NoThread]
    /\ stores = <<>>
    /\ save_state = saved(config)
    /\ heap = DefaultHeap
    /\ calls = <<>>

(* a process starts once the session is under way *)
StartsInSession(p) ==
    /\ monitoring
    /\ procs[p] = Nil
    /\ procs' = [procs EXCEPT ![p] = TickProcs[p]]
    /\ UNCHANGED <<now, denied, save_state, heap, platform, calls, ui_vars, run_vars,
                   ui_pc, join_deadline, threads, stores>>

NextFresh ==
    \/ Tick
    \/ DelayedInit
    \/ StartMonitoring
    \/ \E p \in DOMAIN TickProcs : StartsInSession(p)
    \/ \E t \in Tids :
           \/ ThreadBegin(t)
           \/ WakeAndCheck(t)
           \/ Resolve(t)
           \/ InsertProcess(t)
           \/ InsertSystem(t)

SpecFresh == InitFresh /\ [][NextFresh]_vars

(* ------------------------------- claims ------------------------------- *)
\* the threads in the periodic phase: past a true `while self.monitoring`
Sampling(t) == threads[t].pc \in {"resolve", "insert", "insert_sys", "sleep"}

\* C1: after any sequence of start and stop commands at most one
\* monitor_loop thread is executing the sampling loop.
C1_AtMostOneSamplingLoop ==
    Cardinality({t \in Tids : Sampling(t)}) <= 1

\* the last call of a kind with a key, if any
LastCall(op, ts, key) ==
    LET hits == {k \in 1..Len(calls) : /\ calls[k].op = op
                                       /\ calls[k].timestamp = ts
                                       /\ calls[k].key = key}
    IN IF hits = {} THEN Nil
       ELSE <<calls[CHOOSE k \in hits : \A j \in hits : j <= k]>>

\* C2: the processes table holds at most one row per (timestamp, pid), and
\* that row carries the values of the last write with that key.
C2_ProcessUpsert ==
    \A path \in DOMAIN stores :
        LET rows == stores[path].processes
        IN /\ \A r1, r2 \in rows :
                  (r1.timestamp = r2.timestamp /\ r1.pid = r2.pid) => r1 = r2
           /\ \A k \in 1..Len(calls) :
                  calls[k].op = "process" =>
                      LET last == LastCall("process", calls[k].timestamp, calls[k].key)[1]
                          hit == {r \in rows : /\ r.timestamp = last.timestamp
                                               /\ r.pid = last.key}
                      IN /\ Cardinality(hit) = 1
                         /\ \A r \in hit : r.cpu_percent = last.cpu_percent

\* a second write with the key of the first and another value has happened
C2_Witness ==
    /\ Len(calls) >= 2
    /\ calls[1].op = "process" /\ calls[2].op = "process"
    /\ calls[1].timestamp = calls[2].timestamp
    /\ calls[1].key = calls[2].key
    /\ calls[1].cpu_percent # calls[2].cpu_percent
    /\ Cardinality(stores[db_manager].processes) = 1

\* C3: the system_info table holds at most one row per timestamp, and that
\* row carries the values of the last write with that timestamp.
C3_SystemUpsert ==
    \A path \in DOMAIN stores :
        LET rows == stores[path].system_info
        IN /\ \A r1, r2 \in rows : r1.timestamp = r2.timestamp => r1 = r2
           /\ \A k \in 1..Len(calls) :
                  calls[k].op = "system" =>
                      LET last == LastCall("system", calls[k].timestamp, 0)[1]
                          hit == {r \in rows : r.timestamp = last.timestamp}
                      IN /\ Cardinality(hit) = 1
                         /\ \A r \in hit : r.cpu_percent = last.cpu_percent

\* a write has collided with an earlier row of the same timestamp
C3_Witness ==
    /\ Len(calls) >= 2
    /\ calls[1].op = "system" /\ calls[2].op = "system"
    /\ calls[1].timestamp = calls[2].timestamp
    /\ calls[1].cpu_percent # calls[2].cpu_percent
    /\ Cardinality(stores[db_manager].system_info) = 1

\* C4: from Idle with a start precondition unmet (no collector, an empty
\* output directory or an empty watch-list) no step, a start command
\* included, enters Running, creates a store or starts a monitor thread.
C4_StartNeedsPreconditions ==
    [][(~monitoring /\ ~StartPreconditions) =>
           /\ ~monitoring'
           /\ DOMAIN stores' = DOMAIN stores
           /\ \A t \in Tids : threads[t].pc = "none" => threads'[t].pc = "none"]_vars

\* a start command has run with the output directory empty (it saved the
\* watch-list to the configuration) and left no session behind
C4_Witness ==
    /\ collector # None
    /\ output_dir_input = ""
    /\ config.monitored_processes # <<>>
    /\ ~monitoring
    /\ DOMAIN stores = {}
    /\ \A t \in Tids : threads[t].pc = "none"

\* the rows of a store, of both tables, as the instants they were sampled at
SampledAt(path) ==
    {r.sampled : r \in stores[path].processes}
        \cup {r.sampled : r \in stores[path].system_info}

Writers(path) ==
    {r.writer : r \in stores[path].processes}
        \cup {r.writer : r \in stores[path].system_info}

\* C5: in every session no sample is persisted before the warm-up and the
\* full-interval sleep after it: every row of the session's store was
\* sampled at least one interval after the session's warm-up call.
C5_NoSampleBeforeWarmUpSleep ==
    \A t \in Tids :
        threads[t].db # Nil =>
            \A at \in SampledAt(threads[t].db) :
                /\ threads[t].warm # Nil
                /\ at >= threads[t].warm[1] + threads[t].interval * TicksPerSecond

\* C6: each session has a store of its own, and the rows of a session's
\* store were all written by that session's loop.
C6_OneStorePerSession ==
    /\ \A t1, t2 \in Tids :
           (t1 # t2 /\ threads[t1].db # Nil) => threads[t1].db # threads[t2].db
    /\ \A t \in Tids :
           threads[t].db # Nil => Writers(threads[t].db) \subseteq {t}

\* C7: the names a session's loop resolves are those of the watch-list
\* when the session started, whatever was added or removed afterwards.
C7_SnapshotAtSessionStart ==
    \A t \in Tids :
        threads[t].pc \notin {"none", "start"} =>
            threads[t].monitored_names = threads[t].listed

\* C8: the refresher never enumerates processes while a monitor_loop
\* thread is collecting or writing samples.
C8_RefreshExcludesSampling ==
    ~(ui_pc = "refresh" /\ \E t \in Tids : InTick(t))

\* C9: once stop_monitoring has stopped a thread's session, the thread
\* begins no new tick when its current sleep ends.
C9_StoppedLoopBeginsNoTick ==
    [][\A t \in Tids :
           (threads[t].stopped /\ Sleeping(t)) => threads'[t].pc # "resolve"]_vars

\* C10: a tick that raises does not end the thread: a thread leaves the loop
\* only on finding the session stopped; leaving a tick, by its end or by an
\* error, it sleeps one interval and the session state is untouched; after
\* the sleep, while the session is Running, the next tick begins.
C10_FailingTickKeepsLoop ==
    [][\A t \in Tids :
           /\ (threads[t].pc # "done" /\ threads'[t].pc = "done") => ~monitoring
           /\ (InTick(t) /\ threads'[t].pc \notin {"resolve", "insert", "insert_sys"}) =>
                  /\ threads'[t].pc = "sleep"
                  /\ threads'[t].wake = now + threads[t].interval * TicksPerSecond
                  /\ monitoring' = monitoring
           /\ (threads[t].pc = "sleep" /\ threads'[t].pc # "sleep" /\ monitoring) =>
                  threads'[t].pc = "resolve"]_vars

\* a tick has raised, the session is still Running and the thread is in
\* its next tick, one interval later
C10_Witness ==
    \E t \in Tids :
        /\ threads[t].faulted
        /\ monitoring
        /\ threads[t].pc = "resolve"
        /\ ~threads[t].stopped

\* the processes a tick has to sample: those listed under a watched name,
\* less the ones that ended or deny access before they were sampled
Expected(t) == (threads[t].tick.matched \ threads[t].tick.exited) \ denied

Skipped(t) == (threads[t].tick.matched \cap denied) \cup threads[t].tick.exited

\* C11: a tick never ends in the resolution or between two writes because
\* a process could not be sampled; when the tick completes, every process
\* listed under a watched name that neither ended nor denies access has a
\* row sampled in this tick, and the tick's system sample is written.
C11_SkippedProcessKeepsTick ==
    [][\A t \in Tids :
           /\ (InTick(t) /\ threads'[t].pc \notin {"resolve", "insert", "insert_sys"}) =>
                  /\ threads[t].pc = "insert_sys"
                  /\ threads'[t].pc = "sleep"
                  /\ \A p \in Expected(t) :
                         \E r \in stores'[db_manager].processes :
                             r.pid = p /\ r.sampled = threads[t].tick.at
                  /\ \E r \in stores'[db_manager].system_info :
                         r.sampled = now /\ r.writer = t
           /\ (threads[t].pc = "resolve" /\ threads'[t].pc # "resolve") =>
                  {threads'[t].processes_to_record[k].pid :
                       k \in 1..Len(threads'[t].processes_to_record)}
                      = (Matched(threads[t].monitored_names)
                             \cap {p \in Pids : procs'[p] # Nil}) \ denied]_vars

\* a tick has completed in which one process under a watched name could
\* not be sampled and another one was
C11_Witness ==
    \E t \in Tids :
        /\ threads[t].pc = "sleep"
        /\ Skipped(t) # {}
        /\ Expected(t) # {}
        /\ \A p \in Expected(t) :
               \E r \in stores[db_manager].processes :
                   r.pid = p /\ r.sampled = threads[t].tick.at

\* the rows a store holds for a pid
RowsOf(path, p) == {r \in stores[path].processes : r.pid = p}

\* the row of a set that was inserted first, and the one inserted last
FirstRow(rows) == CHOOSE r \in rows : \A q \in rows : r.id <= q.id
LastRow(rows) == CHOOSE r \in rows : \A q \in rows : r.id >= q.id

\* C12: for a session whose ticks have all been fault-free and that is
\* between two ticks or stopped, a live, readable process under a watched
\* name has as many rows in the session's store as the session has
\* completed ticks, one per tick, their timestamps increasing in the order
\* they were written, and get_time_range() gives the timestamps of the
\* first and the last process row of the store.
C12_OneRowPerTick ==
    \A t \in Tids :
        (threads[t].db # Nil /\ ~threads[t].faulted /\ ~InTick(t)) =>
            /\ \A p \in Matched(threads[t].monitored_names) \ denied :
                   LET rows == RowsOf(threads[t].db, p)
                   IN /\ Cardinality(rows) = threads[t].ticks
                      /\ \A r, q \in rows :
                             /\ r.sampled = q.sampled => r = q
                             /\ r.id < q.id => StrLess(r.timestamp, q.timestamp)
            /\ LET all == stores[threads[t].db].processes
               IN all # {} =>
                      get_time_range(stores[threads[t].db])
                          = <<FirstRow(all).timestamp, LastRow(all).timestamp>>

\* the lower-cased names of a list
LowerSet(table) == {lower(table[k]) : k \in 1..Len(table)}

\* the entries of a list whose lower-cased name is in a set, in order
Keep(table, S) ==
    LET Test(n) == lower(n) \in S IN SelectSeq(table, Test)

NoCaseDuplicates(table) ==
    \A i, j \in 1..Len(table) : lower(table[i]) = lower(table[j]) => i = j

\* C13: the watch-list never holds two entries equal case-insensitively,
\* and no step changes the casing or the order of an entry that stays:
\* adding a name whose case-insensitive equal is present changes nothing.
C13_WatchListUnique ==
    /\ []NoCaseDuplicates(monitored_table)
    /\ [][Keep(monitored_table', LowerSet(monitored_table))
              = Keep(monitored_table, LowerSet(monitored_table'))]_vars

\* the configuration held "C", "v", "c": the list loaded from it holds the
\* first casing only, and "c" is offered by the running table
C13_Witness ==
    /\ config.monitored_processes = <<(<<67>>), (<<118>>), (<<99>>)>>
    /\ monitored_table = <<(<<67>>), (<<118>>)>>
    /\ running_table = <<(<<99>>), (<<118>>)>>

\* the lower-cased names of the live processes
LiveNames == {lower(procs[p]) : p \in LivePids}

\* C14: a refresh over the published names P and the live names N leaves
\* the entries of P \cap N as they were, each with the casing and at the
\* relative place it had, drops the entries of P \ N, adds one entry for
\* each name of N \ P, and publishes exactly N, no name twice.
C14_IncrementalRefresh ==
    [][(ui_pc = "refresh" /\ ui_pc' = "idle") =>
           LET P == LowerSet(running_table)
               N == LiveNames
           IN /\ LowerSet(running_table') = N
              /\ NoCaseDuplicates(running_table')
              /\ Keep(running_table', P) = Keep(running_table, N)
              /\ Len(running_table') - Len(Keep(running_table', P))
                     = Cardinality(N \ P)
              /\ Len(running_table) - Len(Keep(running_table, N))
                     = Cardinality(P \ N)]_vars

\* "C" was published while process 1 ran; with process 1 gone and "c" and
\* "v" running, a refresh has kept the entry "C" and added "v"
C14_Witness ==
    /\ ui_pc = "idle"
    /\ procs[1] = Nil
    /\ procs[2] # Nil
    /\ procs[3] # Nil
    /\ running_table = <<(<<67>>), (<<118>>)>>

\* two dicts are equal when they hold the same pairs
DictEq(a, b) == Range(a) = Range(b)

\* the last insert_process_info call before call k that wrote a key
WrittenBy(k, ts, pid) ==
    LET hits == {j \in 1..(k - 1) : /\ calls[j].op = "process"
                                    /\ calls[j].timestamp = ts
                                    /\ calls[j].key = pid}
    IN calls[CHOOSE j \in hits : \A h \in hits : h <= j]

\* C15: every row get_process_data returns carries a dict as its
\* extra_metrics: for a row written by insert_process_info the dict that
\* was stored, for a row whose column is NULL or empty the empty dict.
C15_ExtraMetricsRoundTrip ==
    \A k \in 1..Len(calls) :
        calls[k].op = "get_process_data" =>
            \A i \in 1..Len(calls[k].result) :
                LET d == calls[k].result[i]
                IN /\ d.extra_metrics.type = "dict"
                   /\ d.writer = 0 =>
                          DictEq(d.extra_metrics.pairs,
                                 WrittenBy(k, d.timestamp, d.pid).extra_metrics)
                   /\ d.writer = -1 => d.extra_metrics.pairs = <<>>

\* the rows of the store that meet every condition a query was given
Satisfying(q) ==
    {r \in stores[db_manager].processes :
         /\ q.pid # Nil => r.pid = q.pid[1]
         /\ q.name # Nil => r.name = q.name[1]
         /\ q.start_time # Nil => ~StrLess(r.timestamp, q.start_time[1])
         /\ q.end_time # Nil => ~StrLess(q.end_time[1], r.timestamp)}

\* C16: get_process_data, the call just answered, returns each stored row
\* that meets all the conditions given (pid, also pid 0; name; timestamp >= start;
\* timestamp <= end) once, and no other row, by ascending timestamp.
C16_QueryFilters ==
    \A k \in {Len(calls)} \ {0} :
        calls[k].op = "get_process_data" =>
            LET res == calls[k].result
            IN /\ {res[i].id : i \in 1..Len(res)}
                      = {r.id : r \in Satisfying(calls[k])}
               /\ Len(res) = Cardinality(Satisfying(calls[k]))
               /\ \A i, j \in 1..Len(res) :
                      i < j => ~StrLess(res[j].timestamp, res[i].timestamp)

\* a query for pid 0 from the instant 1 on has returned one of two rows,
\* the other one being older
C16_Witness ==
    \E k \in {Len(calls)} \ {0} :
        /\ calls[k].op = "get_process_data"
        /\ calls[k].pid = <<0>>
        /\ calls[k].start_time # Nil
        /\ Len(calls[k].result) = 1
        /\ Cardinality(stores[db_manager].processes) = 2
        /\ \E r \in stores[db_manager].processes :
               StrLess(r.timestamp, calls[k].start_time[1])

\* the sample_data calls that had to drop points
Decimated(c) == c.op = "sample_data" /\ Len(c.data) > c.max_points

\* the index floor(i * L / M) of exact arithmetic
exact_index(i, length, max_points) == (i * length) \div max_points

StrictlyIncreasing(s) == \A k \in 1..(Len(s) - 1) : s[k] < s[k + 1]

\* C17: for a series of length L and a point budget M with L > M,
\* sample_data returns exactly M points, the points at the original indices
\* floor(i*L/M) for i in 0..M-1, strictly increasing and within 0..L-1.
C17_SampleIndicesExact ==
    \A n \in 1..Len(calls) :
        Decimated(calls[n]) =>
            LET c == calls[n]
            IN /\ Len(c.result) = c.max_points
               /\ \A k \in 1..Len(c.result) :
                      /\ c.result[k] = exact_index(k - 1, Len(c.data), c.max_points)
                      /\ c.result[k] \in 0..(Len(c.data) - 1)
               /\ StrictlyIncreasing(c.result)

\* C17 (amended): for L > M sample_data returns exactly M points, strictly
\* increasing original indices within 0..L-1 starting at 0; the index for i
\* is int(i * (L/M)) in float arithmetic, which is floor(i*L/M) or one less.
C17_SampleIndicesRounded ==
    \A n \in 1..Len(calls) :
        Decimated(calls[n]) =>
            LET c == calls[n]
            IN /\ Len(c.result) = c.max_points
               /\ c.result[1] = 0
               /\ \A k \in 1..Len(c.result) :
                      /\ c.result[k] \in
                            {exact_index(k - 1, Len(c.data), c.max_points) - 1,
                             exact_index(k - 1, Len(c.data), c.max_points)}
                      /\ c.result[k] \in 0..(Len(c.data) - 1)
               /\ StrictlyIncreasing(c.result)

\* a series of 30 points cut to 22: the 12th point is number 14, where
\* floor(11 * 30 / 22) is 15
C17_Witness ==
    /\ calls # <<>>
    /\ Decimated(calls[1])
    /\ Len(calls[1].data) = 30
    /\ calls[1].max_points = 22
    /\ Len(calls[1].result) = 22
    /\ calls[1].result[12] = 14

\* C18: save_config is atomic: when a save is interrupted by a crash at any
\* point, the configuration path still holds a complete document, the
\* previous one or the new one, never a missing or a partial one.
C18_SaveAtomic ==
    (save_state.pc = "crashed" /\ save_state.previous # Missing) =>
        save_state.target \in {save_state.previous, Complete(config)}

\* the value a nested document holds at a path of keys, if any
RECURSIVE value_at(_, _)
value_at(value, path) ==
    IF path = <<>> THEN <<value>>
    ELSE IF value.t = "dict" /\ has_key(value.items, path[1])
    THEN value_at(lookup(value.items, path[1]), Tail(path))
    ELSE Nil

ClaimKeys ==
    {TopKeys[k] : k \in 1..Len(TopKeys)}
        \cup {NestedKeys[k] : k \in 1..Len(NestedKeys)}
        \cup {DefaultConfig[k][1] : k \in 1..Len(DefaultConfig)}
        \cup {<<"window_height">>}
ClaimPaths == {<<a>> : a \in ClaimKeys} \cup (ClaimKeys \X ClaimKeys)

\* the document puts a scalar where the path wants to go on
Shadowed(document, path) ==
    \E n \in 1..(Len(path) - 1) :
        LET v == value_at(Dict(document), SubSeq(path, 1, n))
        IN v # Nil /\ v[1].t = "leaf"

\* C19: loading merges the document against the defaults recursively: at
\* every nesting level a key of the document keeps the document's value, a
\* default key missing from the document is filled from the defaults, and
\* keys unknown to the defaults stay in the result.
C19_MergeDefaults ==
    \A n \in 1..Len(calls) :
        calls[n].op = "_merge_defaults" =>
            \A path \in ClaimPaths :
                LET dv == value_at(Dict(calls[n].document), path)
                    fv == value_at(Dict(DefaultConfig), path)
                    rv == value_at(Dict(calls[n].config), path)
                IN /\ (dv # Nil /\ dv[1].t = "leaf") => rv = dv
                   /\ (dv # Nil /\ dv[1].t = "dict") =>
                          /\ rv # Nil
                          /\ rv[1].t = "dict"
                          /\ (fv = Nil \/ fv[1].t = "leaf") => rv = dv
                   /\ (dv = Nil /\ fv # Nil /\ ~Shadowed(calls[n].document, path))
                          => rv = fv
                   /\ rv # Nil => (dv # Nil \/ fv # Nil)

\* the document {"ui": {"window_width": 7, "y": 7}, "x": 7} is loaded
C19_Witness ==
    /\ calls # <<>>
    /\ calls[1].op = "_merge_defaults"
    /\ calls[1].document =
           << <<(<<"ui">>), Dict(<< <<(<<"window_width">>), Leaf("7")>>,
                                    <<(<<"y">>), Leaf("7")>> >>)>>,
              <<(<<"x">>), Leaf("7")>> >>
    /\ value_at(Dict(calls[1].config), << <<"ui">>, <<"window_width">> >>)
           = <<Leaf("7")>>
    /\ value_at(Dict(calls[1].config), << <<"ui">>, <<"window_height">> >>)
           = <<Leaf("800")>>
    /\ value_at(Dict(calls[1].config), << <<"ui">>, <<"y">> >>) = <<Leaf("7")>>
    /\ value_at(Dict(calls[1].config), << <<"x">> >>) = <<Leaf("7")>>
    /\ value_at(Dict(calls[1].config), << <<"record_interval">> >>)
           = <<Leaf("5")>>

\* C20: get on a dotted key returns the caller's default whenever a segment
\* of the path is missing at any level, also when the value reached before
\* it is not a mapping, and never raises; otherwise it returns the value
\* stored at the path.
C20_GetDottedPath ==
    \A n \in 1..Len(calls) :
        calls[n].op = "get" =>
            LET stored == value_at(Dict(calls[1].config), split(calls[n].key))
            IN /\ calls[n].result # Raised
               /\ calls[n].result =
                      IF stored = Nil THEN calls[n].default ELSE stored[1]

\* get("record_interval.x", default) where record_interval is a number
C20_Witness ==
    /\ Len(calls) = 2
    /\ calls[2].op = "get"
    /\ calls[2].key = <<"record_interval", Dot, "x">>
    /\ value_at(Dict(calls[1].config), << <<"record_interval">> >>)
           = <<Leaf("7")>>
    /\ calls[2].default = Leaf("0")
    /\ calls[2].result = Leaf("0")

\* the places of a list where a name occurs for the first time, whatever
\* its casing
FirstPlaces(list) ==
    {k \in 1..Len(list) :
        \A j \in 1..(k - 1) : lower(list[j]) # lower(list[k])}

\* C21: on load the watch-list is the subsequence of the stored list that
\* keeps, for each case-insensitive name, only its first occurrence, with
\* that occurrence's casing and in the original order.
C21_LoadKeepsFirstOccurrences ==
    LET stored == config.monitored_processes
        places == SortedSeq(FirstPlaces(stored))
    IN monitored_table = [n \in 1..Len(places) |-> stored[places[n]]]

\* the stored list "c", "v", "C", "v" is loaded as "c", "v"
C21_Witness ==
    /\ config.monitored_processes = <<(<<99>>), (<<118>>), (<<67>>), (<<118>>)>>
    /\ monitored_table = <<(<<99>>), (<<118>>)>>

\* C22: the collector is a function of the host platform (windows gives
\* WindowsCollector, linux gives LinuxCollector); on any other platform
\* create_collector fails, the collector stays unavailable and no command
\* ever starts a session.
C22_CollectorByPlatform ==
    /\ collector # None =>
           \/ platform = "windows" /\ collector = "WindowsCollector"
           \/ platform = "linux" /\ collector = "LinuxCollector"
    /\ platform \notin {"windows", "linux"} =>
           /\ collector = None
           /\ ~monitoring
           /\ monitor_thread = Nil
           /\ \A t \in Tids : threads[t].pc = "none"

\* on darwin, later on, with a watch-list and an output directory: all a
\* start needs but the collector
C22_Witness ==
    /\ platform = "darwin"
    /\ now > 0
    /\ Len(monitored_table) # 0
    /\ output_dir_input # ""
    /\ collector = None
    /\ ~monitoring

\* the threads about to write a row through self.db_manager
Writing(t) == threads[t].pc \in {"insert", "insert_sys"}

\* C23: within one session the loop started for the session is the sole
\* writer of the session's store: every row of a store file was written by
\* the thread start_monitoring created together with that file, and no two
\* threads write to the same store at the same time.
C23_SoleWriter ==
    /\ \A path \in DOMAIN stores :
           \A w \in Writers(path) : threads[w].db = path
    /\ \A t1, t2 \in Tids : (Writing(t1) /\ Writing(t2)) => t1 = t2

\* the pids a thread is about to record, in order
ToRecord(th) ==
    [k \in 1..Len(th.processes_to_record) |-> th.processes_to_record[k].pid]

\* C24: every tick resolves the watched names against the processes live
\* at that moment: a live process whose name equals a watched name
\* ignoring case, also one that started after the session began, is
\* sampled in the tick, and so is every one of several that share a name.
C24_EveryLiveMatchSampled ==
    [][\A t \in Tids :
           (threads[t].pc = "resolve" /\ threads'[t].pc # "resolve") =>
               \A p \in Pids :
                   (procs'[p] # Nil /\ lower(procs'[p]) \in threads[t].monitored_names)
                       => p \in Range(ToRecord(threads'[t]))]_vars

\* C24 (amended): every tick resolves the watched names against the
\* processes live at that moment: a live process whose name equals a
\* watched name ignoring case is sampled in the tick, once and as of the
\* tick, exactly when it grants access to its metrics; this includes
\* processes started after the session began and every one of several that
\* share a name; no other process is sampled.
C24_ReadableLiveMatchSampled ==
    [][\A t \in Tids :
           (threads[t].pc = "resolve" /\ threads'[t].pc # "resolve") =>
               LET pids == ToRecord(threads'[t])
               IN /\ \A p \in Pids :
                         (/\ procs'[p] # Nil
                          /\ lower(procs'[p]) \in threads[t].monitored_names
                          /\ p \notin denied)
                             <=> p \in Range(pids)
                  /\ \A i, j \in 1..Len(pids) : pids[i] = pids[j] => i = j
                  /\ \A k \in 1..Len(pids) :
                         /\ threads'[t].processes_to_record[k].name = procs'[pids[k]]
                         /\ threads'[t].processes_to_record[k].sampled = now]_vars

\* in a later tick of the session "C" and "c", the second started after
\* the earlier tick, are both about to be recorded under the name c
C24_Witness ==
    \E t \in Tids :
        /\ threads[t].pc = "insert"
        /\ threads[t].ticks >= 1
        /\ Range(ToRecord(threads[t])) = {1, 2}
        /\ RowsOf(threads[t].db, 1) # {}
        /\ RowsOf(threads[t].db, 2) = {}

TableOf(c) ==
    IF c.op = "get_process_data" THEN stores[db_manager].processes
    ELSE stores[db_manager].system_info

\* what a row must come back as: its columns as stored, the extra_metrics
\* text parsed, and {} where the text is not JSON
ReadBack(r) ==
    [r EXCEPT !.extra_metrics =
        IF @.kind = "garbage" THEN [type |-> "dict", pairs |-> <<>>]
        ELSE IF @.kind = "json" THEN [type |-> "dict", pairs |-> json_loads(@)]
        ELSE read_extra_metrics(@)]

\* the rows of a table that meet the time conditions and the pid condition
\* of a query
Asked(c) ==
    {r \in TableOf(c) :
         /\ c.start_time # Nil => ~StrLess(r.timestamp, c.start_time[1])
         /\ c.end_time # Nil => ~StrLess(c.end_time[1], r.timestamp)
         /\ (c.op = "get_process_data" /\ c.pid # Nil) => r.pid = c.pid[1]}

\* C26: get_process_data and get_system_data, the call just answered, return
\* every row asked for; a row whose extra_metrics text is not JSON comes
\* back with the empty dict, and every other row comes back as it would
\* without that row in the table.
C26_MalformedJsonReadsEmpty ==
    \A k \in {Len(calls)} \ {0} :
        calls[k].op \in {"get_process_data", "get_system_data"} =>
            LET res == calls[k].result
            IN /\ {res[i] : i \in 1..Len(res)}
                      = {ReadBack(r) : r \in Asked(calls[k])}
               /\ Len(res) = Cardinality(Asked(calls[k]))
               /\ \A i \in 1..Len(res) :
                      res[i].writer = -1 /\ res[i].extra_metrics.type = "dict"
                          => res[i].extra_metrics.pairs = <<>>

\* a query of the processes table returned a row whose column is not JSON
\* beside a row that insert_process_info wrote with {"a": 1}
C26_Witness ==
    \E k \in {Len(calls)} \ {0} :
        /\ calls[k].op = "get_process_data"
        /\ Len(calls[k].result) = 2
        /\ \E r \in stores[db_manager].processes :
               r.extra_metrics = NotJson
        /\ \E i \in 1..2 :
               /\ calls[k].result[i].writer = 0
               /\ calls[k].result[i].extra_metrics.pairs
                      = <<(<<StrKey("a"), 1>>)>>

\* the readings of a column over a series
CpuOf(rows) == [k \in 1..Len(rows) |-> rows[k].cpu_percent]
MemoryOf(rows) == [k \in 1..Len(rows) |-> rows[k].memory_mb]

\* a summary is the summary of these values: its maximum and its minimum
\* are readings of the series that bound all the others, its mean is their
\* sum over their number, each printed to the hundredth
SummaryOver(sm, values) ==
    /\ \E k \in DOMAIN values :
           /\ sm.max = format_2f(values[k], 1)
           /\ \A j \in DOMAIN values : values[j] <= values[k]
    /\ \E k \in DOMAIN values :
           /\ sm.min = format_2f(values[k], 1)
           /\ \A j \in DOMAIN values : values[j] >= values[k]
    /\ sm.mean = format_2f(sum_between(values, 1, Len(values)), Len(values))

\* C27: the analysis of a loaded series counts all its rows and gives the
\* mean, maximum and minimum of cpu_percent and of memory_mb over all its
\* rows, also when the series is longer than the point budget and the
\* charts show only some of them.
C27_StatisticsOverFullSeries ==
    \A k \in DOMAIN calls :
        calls[k].op = "load_process_data" =>
            /\ calls[k].analysis.count = Len(calls[k].process)
            /\ SummaryOver(calls[k].analysis.cpu, CpuOf(calls[k].process))
            /\ SummaryOver(calls[k].analysis.memory,
                           MemoryOf(calls[k].process))

\* a series longer than the budget was loaded whose highest cpu reading
\* and lowest memory reading are not among the points plotted, and the
\* analysis reports them
C27_Witness ==
    \E k \in DOMAIN calls :
        /\ calls[k].op = "load_process_data"
        /\ Len(calls[k].process) > DefaultMaxPoints
        /\ Len(calls[k].charts.cpu_values) = DefaultMaxPoints
        /\ \A i \in DOMAIN calls[k].charts.cpu_values :
               calls[k].charts.cpu_values[i] = 1004
        /\ calls[k].analysis.cpu.max = 250
        /\ calls[k].analysis.memory.min = 0
        /\ calls[k].analysis.count = LongSeries

\* the axis of a charted series: for each plotted row the ticks from the
\* earliest row of the series it was taken from to that row
ElapsedSinceFirst(axis, rows) ==
    LET plotted == sample_data(rows, DefaultMaxPoints)
    IN /\ Len(axis) = Len(plotted)
       /\ \A k \in 1..Len(plotted) :
              /\ axis[k] >= 0
              /\ \E first \in Range(rows) :
                     /\ \A r \in Range(rows) : first.sampled <= r.sampled
                     /\ axis[k] = plotted[k].sampled - first.sampled
       /\ rows # <<>> => axis[1] = 0
       /\ \A k \in 1..(Len(axis) - 1) : axis[k] <= axis[k + 1]

\* C28: the x values of the process charts are the time elapsed since the
\* first sample of the process series, those of the system charts the time
\* elapsed since the first sample of the system series: each axis begins
\* at 0, is never negative, never decreases, and is fixed by its own series
\* alone.
C28_RelativeTimeAxes ==
    \A k \in DOMAIN calls :
        calls[k].op = "load_process_data" =>
            /\ ElapsedSinceFirst(calls[k].charts.timestamps, calls[k].process)
            /\ ElapsedSinceFirst(calls[k].charts.sys_timestamps,
                                 calls[k].system)

\* a process series of three rows was charted beside a system series of
\* two rows that begins at another instant and was written out of order
C28_Witness ==
    \E k \in DOMAIN calls :
        /\ calls[k].op = "load_process_data"
        /\ Len(calls[k].process) = 3
        /\ Len(calls[k].system) = 2
        /\ calls[k].system[1].id > calls[k].system[2].id
        /\ calls[k].system[1].timestamp # calls[k].process[1].timestamp
        /\ calls[k].charts.timestamps[3] > 0
        /\ calls[k].charts.sys_timestamps = <<0, 1>>

\* C29: stop_monitoring comes to its end: once it waits in the join it
\* returns, the loop thread having ended or not, and when it has returned
\* the window is idle with monitoring off.
C29_StopTerminates ==
    (ui_pc = "join") ~> (ui_pc = "idle" /\ ~monitoring)

\* the join has returned at its deadline while the loop thread was still
\* in its sleep
C29_Witness ==
    /\ ui_pc = "idle"
    /\ ~monitoring
    /\ monitor_thread # Nil
    /\ threads[monitor_thread[1]].stopped
    /\ Sleeping(monitor_thread[1])
    /\ now = join_deadline
    /\ threads[monitor_thread[1]].wake > now

\* C30: in a session last_record_time is None until the loop thread of
\* that session has finished a tick without a fault; it changes only when
\* a session begins, to None, and when that thread ends such a tick, after
\* the system row is written; a tick that faults leaves it as it was.
C30_LastRecordTime ==
    [][/\ (monitoring' /\ last_record_time' # Nil) =>
              threads'[monitor_thread'[1]].ticks >= 1
       /\ last_record_time' # last_record_time =>
              \/ ~monitoring /\ monitoring' /\ last_record_time' = Nil
              \/ /\ monitor_thread # Nil
                 /\ threads[monitor_thread[1]].pc = "insert_sys"
                 /\ threads'[monitor_thread[1]].ticks
                        = threads[monitor_thread[1]].ticks + 1
                 /\ threads[monitor_thread[1]].processes_to_record = <<>>]_vars

\* C31: an operation of the store that has returned, or has raised, has
\* left no connection open and no transaction pending.
C31_ConnectionClosedOnReturn ==
    \A k \in DOMAIN calls :
        calls[k].pc \in {"returned", "raised", "handled"} =>
            calls[k].conn = "closed" /\ ~calls[k].tx

\* C32: every cpu_percent a loop thread has persisted was measured since
\* an earlier call on the same process handle: none is the value of the
\* first call on a newly opened handle.
C32_CpuMeasuredSinceBaseline ==
    \A path \in DOMAIN stores :
        \A r \in stores[path].processes :
            r.writer \in Tids =>
                r.cpu_percent # proc_cpu_percent(Process(r.pid), r.sampled)

\* C33: whatever ConfigManager operations have run, the class attribute
\* DEFAULT_CONFIG holds the values it was written with, so every later
\* construction from a missing file starts from them.
C33_DefaultConfigUnchanged ==
    deep(heap, Ref(1)) = Dict(DefaultConfig)

\* one path is the beginning of the other
OnPath(p, q) ==
    \A k \in 1..(IF Len(p) < Len(q) THEN Len(p) ELSE Len(q)) : p[k] = q[k]

\* C38: set(k, v) does not raise, get(k) then returns v, and every value
\* that is not on the path of k is as it was before.
C38_SetThenGet ==
    \A k \in DOMAIN calls :
        calls[k].op = "set" =>
            /\ ~calls[k].raised
            /\ calls[k].result = calls[k].value
            /\ \A path \in ClaimPaths :
                   ~OnPath(path, split(calls[k].key)) =>
                       value_at(calls[k].after, path)
                           = value_at(calls[k].before, path)

\* C34: the series loaded for the tree entry (name, pid), and the count of
\* its analysis, are the rows the store holds for that pid under that
\* name, and no row recorded under another name.
C34_SeriesOfSelectedName ==
    \A k \in {Len(calls)} \ {0} :
        calls[k].op = "load_process_data" =>
            /\ \A i \in DOMAIN calls[k].process :
                   calls[k].process[i].name = calls[k].name
            /\ calls[k].analysis.count =
                   Cardinality({r \in stores[db_manager].processes :
                                    r.pid = calls[k].pid
                                        /\ r.name = calls[k].name})

StoppedInWarmUp(th) ==
    /\ th.stopped
    /\ th.ticks = 0
    /\ ~th.faulted
    /\ th.pc \in {"sleep0", "done"}

\* C36: in a window whose only session is stopped during the warm-up sleep
\* of its loop, the loop leaves that sleep only to end, without a tick, and
\* the store of the session holds no process row and no system row then
\* and afterwards.
C36_StoppedInWarmUpWritesNothing ==
    [][\A t \in Tids :
          /\ (threads[t].stopped /\ threads[t].pc = "sleep0") =>
                 threads'[t].pc \in {"sleep0", "done"}
          /\ StoppedInWarmUp(threads'[t]) =>
                 /\ stores'[threads'[t].db].processes = {}
                 /\ stores'[threads'[t].db].system_info = {}]_vars

C36_Witness ==
    \E t \in Tids :
        /\ StoppedInWarmUp(threads[t])
        /\ threads[t].pc = "done"
        /\ threads[t].warm # Nil
        /\ join_deadline - JoinTimeout * TicksPerSecond > threads[t].warm[1]
        /\ stores[threads[t].db].processes = {}
        /\ stores[threads[t].db].system_info = {}

\* the rows a thread has written, by store
RowsWrittenBy(st, t) ==
    UNION {{<<p, r>> : r \in {w \in st[p].processes \cup st[p].system_info :
                                  w.writer = t}} : p \in DOMAIN st}

\* C37: the step in which insert_process_info raises in a tick writes
\* nothing, drops the samples still to be recorded, leaves last_record_time
\* as it was and puts the loop to sleep for one interval from that moment;
\* while the loop sleeps nothing is written, and the next tick does not
\* begin before the interval is over.
C37_UpsertFaultAbandonsTick ==
    [][\A t \in Tids :
          /\ (threads[t].pc = "insert" /\ threads'[t].pc = "sleep") =>
                 /\ stores' = stores
                 /\ last_record_time' = last_record_time
                 /\ threads'[t].processes_to_record = <<>>
                 /\ threads'[t].ticks = threads[t].ticks
                 /\ threads'[t].wake
                        = now + threads[t].interval * TicksPerSecond
          /\ (threads[t].pc = "sleep" /\ threads[t].faulted) =>
                 /\ RowsWrittenBy(stores', t) \subseteq RowsWrittenBy(stores, t)
                 /\ threads'[t].pc \in {"resolve", "done"} =>
                        now >= threads[t].wake]_vars

\* an upsert has just raised after a row of the tick was written, with
\* the tick's system sample not written
C37_Witness ==
    \E t \in Tids :
        /\ threads[t].pc = "sleep"
        /\ threads[t].faulted
        /\ threads[t].wake = now + threads[t].interval * TicksPerSecond
        /\ Cardinality(threads[t].tick.matched) >= 2
        /\ Cardinality({r \in stores[threads[t].db].processes :
                            r.writer = t /\ r.timestamp = isoformat(now)}) = 1
        /\ \A r \in stores[threads[t].db].system_info :
               r.timestamp # isoformat(now)

====
